---------------------------- MODULE Spec2Model ----------------------------
(***************************************************************************)
(* Model of the sfp-tik-monitor collection engine:                         *)
(*   - RouterOSCollector._make_request and _process_optical_power          *)
(*     (src/routeros_collector.py),                                        *)
(*   - the interactive shell session of ZaramONTCollector                  *)
(*     (src/zaram_ont_collector.py) and its legacy variants                *)
(*     (src/monitor.py, src/pexpect_sfp.py),                               *)
(*   - the scheduler loop of src/main.py.                                  *)
(***************************************************************************)
EXTENDS Integers, Sequences, FiniteSets, TLC

VARIABLES
    api_password,   \* RouterOSCollector.api_password
    json_error,     \* the exception class response.json() raises in this build
    errors,         \* collection_errors_total{collector_type='routeros'} by error_type
    req,            \* observation of the last _make_request call
    gauges,         \* routeros_metrics gauges written by _process_optical_power
    power,          \* observation of the last _process_optical_power call
    sess,           \* the shell session in progress (locals of _connect_and_collect*)
    open_children,  \* pexpect child processes spawned and not yet closed
    started,        \* number of sessions started so far
    sched,          \* locals of main(): position, clock, timers
    ros,            \* RouterOS cycle: config, interface-labelled metrics, flags
    ont,            \* collection_* metrics of collector_type 'zaram_ont'
    shell,          \* gauges parsed from shell replies, last parse observed
    vend            \* observation of the last OLT vendor lookup

vars == <<api_password, json_error, errors, req, gauges, power,
         sess, open_children, started, sched, ros, ont, shell, vend>>

\* ------------------------------------------------------------------ bounds
MaxErrors == 2
MaxSessions == 2
MaxTime == 61
MaxCollects == 1
MaxFollowing == 1
MaxParses == 2
MaxLate == 1

\* --------------------------------------------------------------- constants
None == "None"

\* ======================================================================
\*  HTTP Device Client: RouterOSCollector._make_request
\* ======================================================================

\* what the external lookup (pass) can yield: a secret, or None on failure
Secrets == {"s1", "s2"}
SecretResults == Secrets \cup {None}

\* the requests the collector issues (lines 91, 97, 182-184) and two more
\* that exercise the method dispatch
Requests ==
    {[endpoint |-> "interface", method |-> "GET", data |-> None, params |-> None],
     [endpoint |-> "interface/pppoe-client", method |-> "get", data |-> "d1", params |-> "q1"],
     [endpoint |-> "interface/ethernet/monitor", method |-> "POST", data |-> "d1", params |-> None],
     [endpoint |-> "interface", method |-> "DELETE", data |-> None, params |-> None]}

Bodies == {"b1"}

ErrorTypes == {"timeout", "request_error", "unexpected"}

\* what one session.get / session.post can do
ResponseOutcomes ==
    {[kind |-> "status", code |-> c, body |-> None] : c \in {401, 500}}
    \cup {[kind |-> "status", code |-> 200, body |-> b] : b \in Bodies \cup {"notjson"}}
    \cup {[kind |-> "exc", code |-> 0, body |-> e] : e \in {"Timeout", "ConnectionError", "OSError"}}

NoResponse == [kind |-> "unused", code |-> 0, body |-> None]

\* response.json() on a body that is not JSON raises
\* requests.exceptions.JSONDecodeError (a RequestException) on requests >= 2.27
\* and a plain ValueError on older versions
JsonErrors == {"JSONDecodeError", "ValueError"}

\* the environment of one call: the lookup result used when the password is
\* missing on entry, the first response, the lookup result after a 401 and
\* the response to the retry; parts the call never consults are left unused
EnvsFor(pw) ==
    LET Pres == IF pw # None /\ pw # "" THEN {None} ELSE SecretResults
        Rests == {[r1 |-> r1, fresh |-> None, r2 |-> NoResponse] :
                    r1 \in {r \in ResponseOutcomes : r.code # 401}}
                \cup {[r1 |-> r1, fresh |-> None, r2 |-> NoResponse] :
                    r1 \in {r \in ResponseOutcomes : r.code = 401}}
                \cup {[r1 |-> r1, fresh |-> f, r2 |-> r2] :
                    r1 \in {r \in ResponseOutcomes : r.code = 401},
                    f \in Secrets, r2 \in ResponseOutcomes}
    IN {[pre |-> p, r1 |-> t.r1, fresh |-> t.fresh, r2 |-> t.r2] :
            p \in Pres, t \in Rests}

Truthy(s) == s # None /\ s # ""

Upper(method) ==
    CASE method = "get" -> "GET"
      [] method = "post" -> "POST"
      [] method = "delete" -> "DELETE"
      [] OTHER -> method

Return(v) == [t |-> "return", v |-> v, exc |-> None]
Raise(e) == [t |-> "raise", v |-> None, exc |-> e]

\* _refresh_password: assigns first, then raises when the secret is missing
RefreshPassword(secret) ==
    [pw |-> secret,
     exc |-> IF Truthy(secret) THEN None ELSE "ValueError",
     call |-> [op |-> "resolve", verb |-> None, endpoint |-> None,
               params |-> None, json |-> None, pw |-> None]]

\* session.get(url, auth, params=params) / session.post(url, auth, json=data)
SendCall(verb, endpoint, data, params, pw) ==
    [op |-> "send", verb |-> verb, endpoint |-> endpoint,
     params |-> IF verb = "GET" THEN params ELSE None,
     json |-> IF verb = "POST" THEN data ELSE None,
     pw |-> pw]

FirstVerb(method) == Upper(method)

RetryVerbAlwaysPost(method) == "POST"

\* the retry: GET when method.upper() == 'GET', POST otherwise
RetryVerb(method) == IF Upper(method) = "GET" THEN "GET" ELSE "POST"

\* lines 63-67: status 200 -> response.json(), anything else -> log, None
Finish(resp, jsonerr) ==
    IF resp.code = 200
    THEN IF resp.body = "notjson" THEN Raise(jsonerr) ELSE Return(resp.body)
    ELSE Return(None)

\* the body of the try block, lines 40-67
MakeRequestTry(pw, endpoint, method, data, params, env, jsonerr) ==
    LET pre == IF Truthy(pw)
               THEN [pw |-> pw, exc |-> None, calls |-> <<>>]
               ELSE LET r == RefreshPassword(env.pre)
                    IN [pw |-> r.pw, exc |-> r.exc, calls |-> <<r.call>>]
    IN
    IF pre.exc # None
    THEN [pw |-> pre.pw, calls |-> pre.calls, out |-> Raise(pre.exc)]
    ELSE IF FirstVerb(method) \notin {"GET", "POST"}
    THEN [pw |-> pre.pw, calls |-> pre.calls, out |-> Return(None)]
    ELSE
    LET c1 == Append(pre.calls,
                     SendCall(FirstVerb(method), endpoint, data, params, pre.pw))
    IN
    IF env.r1.kind = "exc"
    THEN [pw |-> pre.pw, calls |-> c1, out |-> Raise(env.r1.body)]
    ELSE IF env.r1.code # 401
    THEN [pw |-> pre.pw, calls |-> c1, out |-> Finish(env.r1, jsonerr)]
    ELSE
    LET r == RefreshPassword(env.fresh)
        c2 == Append(c1, r.call)
    IN
    IF r.exc # None
    THEN [pw |-> r.pw, calls |-> c2, out |-> Raise(r.exc)]
    ELSE
    LET c3 == Append(c2, SendCall(RetryVerb(method), endpoint, data, params, r.pw))
    IN
    IF env.r2.kind = "exc"
    THEN [pw |-> r.pw, calls |-> c3, out |-> Raise(env.r2.body)]
    ELSE [pw |-> r.pw, calls |-> c3, out |-> Finish(env.r2, jsonerr)]

\* exception classes: Timeout and ConnectionError and JSONDecodeError derive
\* from RequestException; ValueError and OSError only from Exception
IsRequestException(e) == e \in {"Timeout", "ConnectionError", "JSONDecodeError"}

\* the except clauses, lines 69-80, in the order they are tried
ErrorType(e) ==
    IF e = "Timeout" THEN "timeout"
    ELSE IF IsRequestException(e) THEN "request_error"
    ELSE "unexpected"

CaughtOnlyRequestExceptions(e) == IsRequestException(e)

\* `except Exception` catches every exception the try block can raise
Caught(e) == TRUE

\* the whole call: what it returns or raises, what it sent, what it counted
MakeRequest(pw, endpoint, method, data, params, env, jsonerr) ==
    LET b == MakeRequestTry(pw, endpoint, method, data, params, env, jsonerr)
        caught == b.out.t = "raise" /\ Caught(b.out.exc)
    IN [pw |-> b.pw,
        calls |-> b.calls,
        raised |-> b.out.t = "raise" /\ ~caught,
        ret |-> IF b.out.t = "return" THEN b.out.v ELSE None,
        inc |-> [k \in ErrorTypes |->
                    IF caught /\ ErrorType(b.out.exc) = k THEN 1 ELSE 0]]

NoReq == [endpoint |-> None, method |-> None, data |-> None, params |-> None,
          env |-> None, calls |-> <<>>, raised |-> FALSE, ret |-> None,
          inc |-> [k \in ErrorTypes |-> 0], done |-> FALSE]

InitHttp ==
    /\ api_password \in Secrets      \* __init__ raises unless a secret was resolved
    /\ json_error \in JsonErrors
    /\ errors = [k \in ErrorTypes |-> 0]
    /\ req = NoReq

ErrorsTotal == errors["timeout"] + errors["request_error"] + errors["unexpected"]

DoMakeRequest ==
    \E rq \in Requests : \E env \in EnvsFor(api_password) :
        LET r == MakeRequest(api_password, rq.endpoint, rq.method, rq.data,
                             rq.params, env, json_error)
        IN /\ ErrorsTotal < MaxErrors
           /\ api_password' = r.pw
           /\ errors' = [k \in ErrorTypes |-> errors[k] + r.inc[k]]
           /\ req' = [endpoint |-> rq.endpoint, method |-> rq.method,
                      data |-> rq.data, params |-> rq.params, env |-> env,
                      calls |-> r.calls, raised |-> r.raised, ret |-> r.ret,
                      inc |-> r.inc, done |-> TRUE]
           /\ UNCHANGED <<json_error, gauges, power, sess, open_children, started, sched,
                        ros, ont, shell, vend>>

\* ======================================================================
\*  Reconciliation: RouterOSCollector._process_optical_power
\* ======================================================================

\* config.stale_data_threshold_dbm, in dBm
stale_data_threshold_dbm == -40

\* floats are kept as integers in tenths: -18.6 dBm is -186
Scale == 10

Digits == <<"0", "1", "2", "3", "4", "5", "6", "7", "8", "9">>
IsDigit(c) == \E d \in 1..10 : Digits[d] = c
DigitVal(c) == (CHOOSE d \in 1..10 : Digits[d] = c) - 1

\* str.rstrip(chars): drop trailing characters that are in the set
RECURSIVE RStrip(_, _)
RStrip(s, chars) ==
    IF s # <<>> /\ s[Len(s)] \in chars
    THEN RStrip(SubSeq(s, 1, Len(s) - 1), chars)
    ELSE s

RECURSIVE LStrip(_, _)
LStrip(s, chars) ==
    IF s # <<>> /\ s[1] \in chars
    THEN LStrip(SubSeq(s, 2, Len(s)), chars)
    ELSE s

\* sub in s
Contains(s, sub) ==
    \E i \in 1..(Len(s) - Len(sub) + 1) : SubSeq(s, i, i + Len(sub) - 1) = sub

RECURSIVE DigitsVal(_)
DigitsVal(s) ==
    IF s = <<>> THEN 0
    ELSE DigitsVal(SubSeq(s, 1, Len(s) - 1)) * 10 + DigitVal(s[Len(s)])

AllDigits(s) == \A i \in 1..Len(s) : IsDigit(s[i])

Ok(v) == [ok |-> TRUE, val |-> v]
Err == [ok |-> FALSE, val |-> 0]

\* float(str) for decimal literals with at most one fractional digit:
\* surrounding blanks, an optional sign, digits, an optional point
FloatOfStr(s) ==
    LET t == RStrip(LStrip(s, {" "}), {" "})
        neg == t # <<>> /\ t[1] = "-"
        u == IF t # <<>> /\ t[1] \in {"-", "+"} THEN SubSeq(t, 2, Len(t)) ELSE t
        dots == {i \in 1..Len(u) : u[i] = "."}
        ip == IF dots = {} THEN u
              ELSE SubSeq(u, 1, (CHOOSE i \in dots : TRUE) - 1)
        fp == IF dots = {} THEN <<>>
              ELSE SubSeq(u, (CHOOSE i \in dots : TRUE) + 1, Len(u))
        mag == DigitsVal(ip) * Scale + (IF fp = <<>> THEN 0 ELSE DigitVal(fp[1]))
    IN IF /\ Cardinality(dots) <= 1
          /\ AllDigits(ip) /\ AllDigits(fp)
          /\ Len(ip) + Len(fp) >= 1
          /\ Len(fp) <= 1
       THEN Ok(IF neg THEN 0 - mag ELSE mag)
       ELSE Err

\* values a monitor response can carry under a power key
StrVal(chars) == [type |-> "str", chars |-> chars, num |-> 0]
NumVal(n) == [type |-> "num", chars |-> <<>>, num |-> n]
NullVal == [type |-> "null", chars |-> <<>>, num |-> 0]
Absent == [type |-> "absent", chars |-> <<>>, num |-> 0]

PowerValues ==
    {Absent,
     NullVal,
     NumVal(-399),
     StrVal(<<"-", "5", ".", "0", "d", "B", "m">>),
     StrVal(<<"-", "4", "0", ".", "0">>),
     StrVal(<<"-", "4", "1", " ", "d", "B", "m">>),
     StrVal(<<"d", "B", "m">>),
     StrVal(<<"-", "5", "m", "d", "B">>)}

\* lines 346-349: strip the unit when the text contains it, then float();
\* float() raises ValueError on bad text and TypeError on a non-number
ParsePower(v) ==
    IF v.type = "str"
    THEN IF Contains(v.chars, <<"d", "B", "m">>)
         THEN FloatOfStr(RStrip(v.chars, {"d", "B", "m"}))
         ELSE FloatOfStr(v.chars)
    ELSE IF v.type = "num" THEN Ok(v.num)
    ELSE Err

IsStaleAtOrAbove(link_is_up, value) ==
    ~link_is_up /\ value >= stale_data_threshold_dbm * Scale

\* lines 352 and 374: the stale-data test
IsStale(link_is_up, value) ==
    ~link_is_up /\ value > stale_data_threshold_dbm * Scale

MetricTypes == {"rx_power", "tx_power"}
Unset == "unset"

\* one of the two blocks of _process_optical_power (lines 343-362, 365-384):
\* the gauges after it, given the gauges before it
ProcessOnePower(g, mt, v, link_is_up) ==
    IF v.type = "absent" \/ ~ParsePower(v).ok
    THEN g
    ELSE LET value == ParsePower(v).val
         IN [g EXCEPT !.sfp_data_stale[mt] = IF IsStale(link_is_up, value) THEN 1 ELSE 0,
                      !.sfp_power[mt] = value,
                      !.written = @ \cup {mt}]

ProcessOpticalPower(g, rx, tx, link_is_up) ==
    ProcessOnePower(ProcessOnePower([g EXCEPT !.written = {}],
                                    "rx_power", rx, link_is_up),
                    "tx_power", tx, link_is_up)

\* one of the two blocks of collect_metrics in monitor.py (lines 1010-1046,
\* 1048-1076): a fresh reading also sets sfp_last_verified to current_time;
\* the direct readings fetched for a stale RX value are only logged
MonitorOnePower(g, mt, v, link_is_up, current_time) ==
    IF v.type = "absent" \/ ~ParsePower(v).ok
    THEN g
    ELSE IF IsStale(link_is_up, ParsePower(v).val)
    THEN [g EXCEPT !.sfp_data_stale[mt] = 1,
                   !.sfp_power[mt] = ParsePower(v).val,
                   !.written = @ \cup {mt}]
    ELSE [g EXCEPT !.sfp_data_stale[mt] = 0,
                   !.sfp_power[mt] = ParsePower(v).val,
                   !.sfp_last_verified = current_time,
                   !.written = @ \cup {mt}]

MonitorOpticalPower(g, rx, tx, link_is_up, current_time) ==
    MonitorOnePower(MonitorOnePower([g EXCEPT !.written = {}],
                                    "rx_power", rx, link_is_up, current_time),
                    "tx_power", tx, link_is_up, current_time)

\* the clock readings handed to the processing of a monitor reply
CurrentTimes == {1000, 1030}

\* a call that was made: by whom, with what, and the last-verified time
\* exposed before it
\* the quantities compare_sfp_metrics compares (monitor.py lines 107-142)
CompareKeys == {"temperature", "voltage", "tx_bias", "tx_power", "rx_power"}

\* no comparison observed yet
NoCompare ==
    [done |-> FALSE, link_is_up |-> FALSE, raised |-> FALSE, warned |-> {},
     api |-> [k \in CompareKeys |-> Absent],
     direct |-> [lines |-> <<>>, len |-> 0],
     stale_before |-> [mt \in MetricTypes |-> Unset],
     power_before |-> [mt \in MetricTypes |-> Unset]]

PowerCall(by, link_is_up, rx, tx, current_time, g) ==
    [done |-> TRUE, link_is_up |-> link_is_up, rx |-> rx, tx |-> tx,
     by |-> by, current_time |-> current_time,
     verified_before |-> g.sfp_last_verified, cmp |-> NoCompare]

InitPower ==
    /\ gauges = [sfp_data_stale |-> [mt \in MetricTypes |-> Unset],
                 sfp_power |-> [mt \in MetricTypes |-> Unset],
                 sfp_last_verified |-> 0,
                 written |-> {}]
    /\ power = [done |-> FALSE, link_is_up |-> FALSE, rx |-> Absent, tx |-> Absent,
                by |-> "none", current_time |-> 0, verified_before |-> 0,
                cmp |-> NoCompare]

\* the collector and monitor.py are two programs, each with its own registry:
\* one behaviour follows one of them
DoProcessOpticalPower ==
    /\ power.by \in {"none", "collector"}
    /\ \E rx \in PowerValues, tx \in PowerValues, link_is_up \in BOOLEAN,
          current_time \in CurrentTimes :
        /\ gauges' = ProcessOpticalPower(gauges, rx, tx, link_is_up)
        /\ power' = PowerCall("collector", link_is_up, rx, tx, current_time, gauges)
        /\ UNCHANGED <<api_password, json_error, errors, req, sess, open_children,
                     started, sched, ros, ont, shell, vend>>

\* what monitor.py is handed: no value, a strong and a weak reading, and a
\* text that is no number
MonitorPowerValues ==
    {Absent,
     StrVal(<<"-", "5", ".", "0", "d", "B", "m">>),
     StrVal(<<"-", "4", "1", " ", "d", "B", "m">>),
     StrVal(<<"d", "B", "m">>)}

DoMonitorOpticalPower ==
    /\ power.by \in {"none", "monitor"}
    /\ \E rx \in MonitorPowerValues, tx \in MonitorPowerValues,
          link_is_up \in BOOLEAN, current_time \in CurrentTimes :
        /\ gauges' = MonitorOpticalPower(gauges, rx, tx, link_is_up, current_time)
        /\ power' = PowerCall("monitor", link_is_up, rx, tx, current_time, gauges)
        /\ UNCHANGED <<api_password, json_error, errors, req, sess, open_children,
                     started, sched, ros, ont, shell, vend>>

\* ======================================================================
\*  Interactive Shell Session: ZaramONTCollector._connect_and_collect*,
\*  monitor.run_sfp_command, pexpect_sfp.main
\* ======================================================================

\* the five implementations of the session
CollectorVariants == {"regular", "olt_vendor", "all"}
Variants == CollectorVariants \cup {"run_sfp_command", "pexpect_sfp"}

RegularCommands ==
    <<"sfp info", "onu show pon counter", "onu show ponlink",
      "onu show pon serdes", "sysmon cpu", "sysmon memory">>

OltVendorCommandsWithSfpInfo == <<"sfp info", "onu dump ptp">>

OltVendorCommands == <<"onu dump ptp">>

RunCommandsList ==
    <<"sfp info", "onu dump ptp", "onu show pon counter", "onu show ponlink",
      "onu show pon serdes", "sysmon cpu", "sysmon memory">>

PexpectCommands ==
    <<"sfp info", "onu show pon", "onu show pon sync", "onu show pon activation",
      "onu show pon serdes", "onu show pon counter", "onu show pon optic",
      "onu show pq", "onu show pmapper", "onu show sram", "onu show ponlink",
      "onu show fpga", "onu show key info", "onu dump counter", "onu dump vlan",
      "onu dump ptp", "onu dump acl">>

\* the commands monitor.py passes to run_sfp_command
SfpCommandArgs == {"sfp info", "sysmon cpu"}

Range(seq) == {seq[i] : i \in 1..Len(seq)}

CommandNames == Range(RunCommandsList) \cup Range(PexpectCommands)

CommandsOf(variant, arg) ==
    CASE variant = "regular" -> RegularCommands
      [] variant = "olt_vendor" -> OltVendorCommands
      [] variant = "all" -> RunCommandsList
      [] variant = "run_sfp_command" -> <<arg>>
      [] OTHER -> PexpectCommands

\* lines sent during the handshake and the teardown
TelnetLine == "/system telnet <ip>"
UserLine == "<user>"
PasswordLine == "<password>"
SshPasswordLine == "<ssh password>"
ExitLine == "exit"
QuitLine == "quit"

\* self.zaram_ont_password: __init__ raises unless it is set
zaram_ont_password == PasswordLine

\* ---- reply text: a text is the sequence of its lines ------------------

LongLine == "temperature: 53.250C"
ShortLine == "ok"
PromptFragment == "admin@ZXOS11NPI [/]"
Missing == <<"<no entry>">>

\* what child.before can hold when the prompt is matched after `cmd`
RawReplies(cmd) ==
    {<<cmd, LongLine, "">>,
     <<cmd>>,
     <<cmd, ShortLine>>,
     <<PromptFragment, cmd, LongLine>>}

IsBlank(line) == line = ""
IsPromptArtifact(line) == line = PromptFragment

RECURSIVE StripLeft(_)
StripLeft(t) == IF t # <<>> /\ IsBlank(t[1]) THEN StripLeft(SubSeq(t, 2, Len(t))) ELSE t

RECURSIVE StripRight(_)
StripRight(t) ==
    IF t # <<>> /\ IsBlank(t[Len(t)]) THEN StripRight(SubSeq(t, 1, Len(t) - 1)) ELSE t

\* output.replace(cmd, '').strip()   (lines 912-914)
CleanRegular(raw, cmd) ==
    StripRight(StripLeft([i \in 1..Len(raw) |-> IF raw[i] = cmd THEN "" ELSE raw[i]]))

\* re.sub(re.escape(cmd) + r'\s*\r?\n', '', full_output, count=1)
RemoveFirstEcho(raw, cmd) ==
    IF \E i \in 1..Len(raw) : raw[i] = cmd
    THEN LET k == CHOOSE i \in 1..Len(raw) :
                    raw[i] = cmd /\ \A j \in 1..(i - 1) : raw[j] # cmd
         IN SubSeq(raw, 1, k - 1) \o SubSeq(raw, k + 1, Len(raw))
    ELSE raw

KeepLine(line) == ~IsBlank(line) /\ ~IsPromptArtifact(line)

\* lines 314-319 and 957-962: drop the echo, blank lines, prompt artifacts
CleanLines(raw, cmd) == SelectSeq(RemoveFirstEcho(raw, cmd), KeepLine)

RECURSIVE TextLen(_)
TextLen(t) ==
    IF t = <<>> THEN 0
    ELSE IF Len(t) = 1 THEN Len(t[1])
    ELSE Len(t[1]) + 1 + TextLen(SubSeq(t, 2, Len(t)))

MinOutputLen == 10
\* line 322: not cleaned_output or cleaned_output == '[/] #' or len < 10
TooShort(t) == t = <<>> \/ t = <<"[/] #">> \/ TextLen(t) < MinOutputLen

\* ---- outcomes of the expect calls -------------------------------------

SshPasswordOutcomes == {"password", "EOF", "TIMEOUT"}
RouterPromptOutcomes == {"prompt", "TIMEOUT", "EOF"}
LoginOutcomes == {"login", "refused", "TIMEOUT", "EOF"}
PasswordOutcomes == {"Password", "TIMEOUT", "EOF"}
BannerOutcomes == {"banner", "TIMEOUT", "EOF"}
TeardownOutcomes == {"prompt", "TIMEOUT", "EOF"}

Reply(raw) == [kind |-> "reply", raw |-> raw]
\* a prompt wait that timed out, with what had arrived by then
TimedOut(partial) == [kind |-> "timeout", raw |-> partial]
\* sendline or expect raised (end of stream, dead child)
Raised == [kind |-> "exc", raw |-> <<>>]
CommandOutcomes(cmd) ==
    {Reply(r) : r \in RawReplies(cmd)}
    \cup {TimedOut(<<>>), TimedOut(<<cmd>>), Raised}

\* ---- session state ----------------------------------------------------

NoOutputs == [c \in CommandNames |-> Missing]
NoCur == [cmd |-> None, sends |-> 0, timed_out |-> FALSE, last |-> Raised,
          complete |-> FALSE, waits |-> <<>>]
RetUnset == [t |-> "unset", map |-> NoOutputs, str |-> <<>>]
RetNone == [t |-> "None", map |-> NoOutputs, str |-> <<>>]
RetMap(m) == [t |-> "map", map |-> m, str |-> <<>>]
RetStr(x) == [t |-> "str", map |-> NoOutputs, str |-> x]

NewSession(variant, arg) ==
    [variant |-> variant, commands |-> CommandsOf(variant, arg), pc |-> "start",
     child |-> 0, sent |-> <<>>, idx |-> 1, attempt |-> 0,
     outputs |-> NoOutputs, cur |-> NoCur, ret |-> RetUnset,
     pw_prompt |-> FALSE, reached_loop |-> FALSE, teardown |-> None,
     closed |-> FALSE,
     \* the child's input: text read and not yet consumed by an expect call,
     \* and text the device has still to deliver
     buffer |-> <<>>, wire |-> <<>>,
     \* prompt waits of the command loop that timed out
     late |-> 0]

IdleSession == [NewSession("regular", None) EXCEPT !.pc = "idle"]

Entry(m, cmd, text) == [m EXCEPT ![cmd] = text]
Entries(m) == {c \in CommandNames : m[c] # Missing}

InitSession ==
    /\ sess = IdleSession
    /\ open_children = {}
    /\ started = 0

\* child.close() followed by the function's return value
CloseAndReturn(s, ret) == [s EXCEPT !.pc = "done", !.ret = ret, !.closed = TRUE]

\* what a failed step returns: the collectors and run_sfp_command return
\* None; pexpect_sfp.main prints and falls through to its finally clause
FailedWithoutClose(s) == [s EXCEPT !.pc = "done", !.ret = RetNone]

Failed(s) == CloseAndReturn(s, RetNone)

HttpIdle == UNCHANGED <<api_password, json_error, errors, req, gauges, power>>

\* a step of the session or of the scheduler writes no parsed metric
CollectorsIdle == UNCHANGED <<ros, shell, vend>>

OntIdle == UNCHANGED ont

\* pexpect.spawn(f'ssh {user}@{host}')   (lines 181, 721, 802)
Spawn ==
    /\ sess.pc = "start"
    /\ \/ /\ sess' = [sess EXCEPT !.pc = "expect_ssh_password", !.child = started]
          /\ open_children' = open_children \cup {started}
       \/ \* spawn raises: `child` is never bound, nothing to close
          /\ sess' = [sess EXCEPT !.pc = "done", !.ret = RetNone]
          /\ open_children' = open_children
    /\ UNCHANGED <<started, sched>>
    /\ HttpIdle /\ CollectorsIdle /\ OntIdle

\* the processes still open once the step that led to s2 has run
ClosedChildren(s, s2) ==
    IF s2.closed THEN open_children \ {s2.child} ELSE open_children

\* a handshake step of the session: its effect on the session record
SshPasswordStep(s, o) ==
    IF o = "password"
    THEN IF s.variant = "pexpect_sfp"
         THEN [s EXCEPT !.pw_prompt = TRUE,
                        !.sent = Append(@, SshPasswordLine),
                        !.pc = "expect_router_prompt"]
         ELSE Failed([s EXCEPT !.pw_prompt = TRUE])
    ELSE [s EXCEPT !.pc = "expect_router_prompt"]

RouterPromptStep(s, o) ==
    IF o = "prompt"
    THEN [s EXCEPT !.sent = Append(@, TelnetLine), !.pc = "expect_login"]
    ELSE Failed(s)

\* a login step that does not wait for the password prompt
LoginStepSendsPassword(s, o) ==
    IF o = "login"
    THEN [s EXCEPT !.sent = Append(Append(@, UserLine), PasswordLine),
                   !.pc = "expect_banner"]
    ELSE Failed(s)

LoginStep(s, o) ==
    IF o = "login"
    THEN [s EXCEPT !.sent = Append(@, UserLine), !.pc = "expect_password"]
    ELSE Failed(s)

PasswordStep(s, o) ==
    IF o # "Password" THEN Failed(s)
    ELSE IF s.variant \in CollectorVariants /\ ~Truthy(zaram_ont_password)
    THEN Failed(s)
    ELSE [s EXCEPT !.sent = Append(@, PasswordLine), !.pc = "expect_banner"]

BannerStep(s, o) ==
    IF o = "banner"
    THEN [s EXCEPT !.pc = "commands", !.reached_loop = TRUE]
    ELSE Failed(s)

\* child.expect(['password:', EOF, TIMEOUT], timeout=5)   (lines 724-729)
ExpectSshPassword ==
    /\ sess.pc = "expect_ssh_password"
    /\ \E o \in SshPasswordOutcomes :
        /\ sess' = SshPasswordStep(sess, o)
        /\ open_children' = ClosedChildren(sess, sess')
    /\ UNCHANGED <<started, sched>>
    /\ HttpIdle /\ CollectorsIdle /\ OntIdle

\* child.expect([r'\[.*\] >', TIMEOUT], timeout=10)   (lines 732-742)
ExpectRouterPrompt ==
    /\ sess.pc = "expect_router_prompt"
    /\ \E o \in RouterPromptOutcomes :
        /\ sess' = RouterPromptStep(sess, o)
        /\ open_children' = ClosedChildren(sess, sess')
    /\ UNCHANGED <<started, sched>>
    /\ HttpIdle /\ CollectorsIdle /\ OntIdle

\* child.expect(['login:', 'Connection refused', TIMEOUT], timeout=10)
ExpectLogin ==
    /\ sess.pc = "expect_login"
    /\ \E o \in LoginOutcomes :
        /\ sess' = LoginStep(sess, o)
        /\ open_children' = ClosedChildren(sess, sess')
    /\ UNCHANGED <<started, sched>>
    /\ HttpIdle /\ CollectorsIdle /\ OntIdle

\* child.expect(['Password:', TIMEOUT], timeout=5)   (lines 755-767)
ExpectPassword ==
    /\ sess.pc = "expect_password"
    /\ \E o \in PasswordOutcomes :
        /\ sess' = PasswordStep(sess, o)
        /\ open_children' = ClosedChildren(sess, sess')
    /\ UNCHANGED <<started, sched>>
    /\ HttpIdle /\ CollectorsIdle /\ OntIdle

\* child.expect(['ZXOS11NPI', TIMEOUT], timeout=5)   (lines 770-776)
ExpectBanner ==
    /\ sess.pc = "expect_banner"
    /\ \E o \in BannerOutcomes :
        /\ sess' = BannerStep(sess, o)
        /\ open_children' = ClosedChildren(sess, sess')
    /\ UNCHANGED <<started, sched>>
    /\ HttpIdle /\ CollectorsIdle /\ OntIdle

\* ---- the command loops ------------------------------------------------

\* _run_regular_commands, lines 906-922: the entry stored for one command
RegularEntry(cmd, o) ==
    IF o.kind = "reply" THEN CleanRegular(o.raw, cmd) ELSE <<>>

\* _run_olt_vendor_command, lines 948-973
VendorEntry(cmd, o) ==
    IF o.kind = "reply" THEN CleanLines(o.raw, cmd) ELSE <<>>

MaxRetries == 3
\* retry_delay, in seconds (line 279)
retry_delay == 1

\* wait_time = retry_delay * (2 ** attempt)   (lines 296, 324)
WaitTime(attempt) == retry_delay * (2 ^ attempt)

\* a retrying loop that allows one attempt more
RetriesOnceMore(attempt, cmd, o) ==
    /\ attempt < MaxRetries
    /\ \/ o.kind = "timeout"
       \/ o.kind = "reply" /\ TooShort(CleanLines(o.raw, cmd))

\* _run_commands, lines 281-339: does this attempt end with `continue`?
Retries(attempt, cmd, o) ==
    /\ attempt < MaxRetries - 1
    /\ \/ o.kind = "timeout"
       \/ o.kind = "reply" /\ TooShort(CleanLines(o.raw, cmd))

\* _run_commands: the entry stored by an attempt that does not retry
RunCommandsEntry(cmd, o) ==
    IF o.kind = "reply" THEN CleanLines(o.raw, cmd) ELSE <<>>

\* run_sfp_command, lines 754-766: the timed-out wait keeps the partial text
SfpCommandOutput(cmd, o) ==
    IF o.kind = "reply" THEN RemoveFirstEcho(o.raw, cmd) ELSE o.raw

AbortAfterTimeout(s, o) ==
    IF o.kind = "timeout" \/ s.idx = Len(s.commands)
    THEN [s EXCEPT !.pc = "teardown", !.attempt = 0]
    ELSE [s EXCEPT !.idx = @ + 1, !.attempt = 0]

\* the for loop moves to the next command, or leaves the loop after the last
Advance(s, o) ==
    IF s.idx = Len(s.commands)
    THEN [s EXCEPT !.pc = "teardown", !.attempt = 0]
    ELSE [s EXCEPT !.idx = @ + 1, !.attempt = 0]

\* bookkeeping of the command being run: how often it was sent, whether a
\* wait for it timed out, how its last attempt ended, the sleeps before its
\* re-sends
Attempted(s, cmd, o, complete) ==
    LET fresh == s.attempt = 0
    IN [cmd |-> cmd,
        sends |-> IF fresh THEN 1 ELSE s.cur.sends + 1,
        timed_out |-> (o.kind = "timeout") \/ (~fresh /\ s.cur.timed_out),
        last |-> o,
        complete |-> complete,
        waits |-> (IF fresh THEN <<>> ELSE s.cur.waits)
                     \o (IF complete THEN <<>> ELSE <<WaitTime(s.attempt)>>)]

\* child.sendline(cmd): a command's re-sends are counted in cur.sends
SendCommand(s, cmd) ==
    IF s.attempt = 0 THEN [s EXCEPT !.sent = Append(@, cmd)] ELSE s

\* one pass through the body of the command loop
CommandStep(s0, cmd, o) ==
    LET s == SendCommand(s0, cmd)
        done == [s EXCEPT !.cur = Attempted(s0, cmd, o, TRUE)]
    IN
    CASE s.variant = "regular" ->
            Advance([done EXCEPT !.outputs = Entry(@, cmd, RegularEntry(cmd, o))], o)
      [] s.variant = "olt_vendor" ->
            Advance([done EXCEPT !.outputs = Entry(@, cmd, VendorEntry(cmd, o))], o)
      [] s.variant = "all" ->
            IF o.kind # "exc" /\ Retries(s.attempt, cmd, o)
            THEN [s EXCEPT !.cur = Attempted(s0, cmd, o, FALSE), !.attempt = @ + 1]
            ELSE Advance([done EXCEPT !.outputs = Entry(@, cmd, RunCommandsEntry(cmd, o))], o)
      [] s.variant = "run_sfp_command" ->
            IF o.kind = "exc"
            THEN Failed(done)
            ELSE Advance([done EXCEPT !.outputs = Entry(@, cmd, SfpCommandOutput(cmd, o))], o)
      [] OTHER -> \* pexpect_sfp.run_command: the output is only logged
            Advance(done, o)

\* the body of `for cmd in commands` (lines 275-339, 895-922, 937-973)
RunCommand ==
    /\ sess.pc = "commands"
    /\ \E o \in CommandOutcomes(sess.commands[sess.idx]) :
        /\ sess' = CommandStep(sess, sess.commands[sess.idx], o)
        /\ open_children' = ClosedChildren(sess, sess')
    /\ UNCHANGED <<started, sched>>
    /\ HttpIdle /\ CollectorsIdle /\ OntIdle

ReturnValue(s) ==
    IF s.variant = "run_sfp_command"
    THEN RetStr(s.outputs[s.commands[1]])
    ELSE RetMap(s.outputs)

\* a wait for the router's prompt that is repeated until the prompt comes
TeardownUntilPrompt(s, o) ==
    IF o = "prompt" /\ s.variant # "pexpect_sfp"
    THEN CloseAndReturn([s EXCEPT !.teardown = o,
                                  !.sent = Append(Append(@, ExitLine), QuitLine)],
                        RetMap(s.outputs))
    ELSE [s EXCEPT !.teardown = o]

\* sendline('exit'); expect(r'\[.*\] >', timeout=5); sendline('quit');
\* close(); return command_outputs -- a wait that raises TIMEOUT or EOF
\* lands in the except clause, which closes the child and returns None
\* (lines 781-796); pexpect_sfp.main only closes the child (lines 142-146)
TeardownStep(s, o) ==
    IF s.variant = "pexpect_sfp"
    THEN CloseAndReturn([s EXCEPT !.teardown = o], RetNone)
    ELSE IF o = "prompt"
    THEN CloseAndReturn([s EXCEPT !.teardown = o,
                                  !.sent = Append(Append(@, ExitLine), QuitLine)],
                        ReturnValue(s))
    ELSE Failed([s EXCEPT !.teardown = o, !.sent = Append(@, ExitLine)])

Teardown ==
    /\ sess.pc = "teardown"
    /\ \E o \in TeardownOutcomes :
        /\ sess' = TeardownStep(sess, o)
        /\ open_children' = ClosedChildren(sess, sess')
    /\ UNCHANGED <<started, sched>>
    /\ HttpIdle /\ CollectorsIdle /\ OntIdle

\* a caller starts a session of any of the five implementations
StartSession ==
    /\ sess.pc \in {"idle", "done"}
    /\ started < MaxSessions
    /\ \E v \in Variants :
        \E arg \in (IF v = "run_sfp_command" THEN SfpCommandArgs ELSE {None}) :
            sess' = NewSession(v, arg)
    /\ started' = started + 1
    /\ UNCHANGED <<open_children, sched>>
    /\ HttpIdle /\ CollectorsIdle /\ OntIdle

\* a collector starts the session of one cycle: _connect_and_collect,
\* _connect_and_collect_regular or _connect_and_collect_olt_vendor
StartCollectorSession ==
    /\ sess.pc = "idle"
    /\ \E v \in CollectorVariants : sess' = NewSession(v, None)
    /\ started' = started + 1
    /\ UNCHANGED <<open_children, sched>>
    /\ HttpIdle /\ CollectorsIdle /\ OntIdle

SessionStep ==
    \/ Spawn
    \/ ExpectSshPassword
    \/ ExpectRouterPrompt
    \/ ExpectLogin
    \/ ExpectPassword
    \/ ExpectBanner
    \/ RunCommand
    \/ Teardown

\* ======================================================================
\*  Scheduler: main() of src/main.py
\* ======================================================================

\* time.time() when the loop is entered, in seconds
StartTime == 1000
collection_interval_seconds == 30
olt_vendor_interval == 300
TickSleep == 1
ErrorSleep == 60

InitSched ==
    sched = [pc |-> "top", now |-> StartTime, current_time |-> 0,
             last_regular_collection |-> 0, last_olt_vendor_collection |-> 0]

SessIdle == UNCHANGED <<sess, open_children, started>>

\* current_time = time.time(); is the regular collection due?  (lines 54-58)
LoopTop ==
    /\ sched.pc = "top"
    /\ sched' = [sched EXCEPT
            !.current_time = sched.now,
            !.pc = IF sched.now - sched.last_regular_collection
                        >= collection_interval_seconds
                   THEN "collect_routeros" ELSE "check_olt"]
    /\ SessIdle /\ HttpIdle /\ CollectorsIdle /\ OntIdle

\* routeros_collector.collect_all_metrics(): it catches its own exceptions
\* and shares no state with the shell session; its requests are the subject
\* of SpecHttp
CollectRouterOS ==
    /\ sched.pc = "collect_routeros"
    /\ sched' = [sched EXCEPT !.pc = "collect_regular"]
    /\ SessIdle /\ HttpIdle /\ CollectorsIdle /\ OntIdle

\* a labelled child of a metric: never written, or its last value
Unwritten == [set |-> FALSE, val |-> 0]
Val(v) == [set |-> TRUE, val |-> v]

\* the zaram_ont collector's cycle metrics and what its last cycle did:
\* collection_success{collector_type='zaram_ont'}, the collection_error
\* counter of collection_errors_total, whether the session gave nothing
\* (failed), whether the counter was incremented and whether an exception
\* left the collect call; last_collection_timestamp{collector_type=
\* 'zaram_ont'}, the value the call returned and whether every reply of
\* the mapping it was given was empty
NoCycle ==
    [collection_success |-> Unwritten, collection_error |-> 0, cycle |-> "none",
     failed |-> FALSE, counted |-> FALSE, raised |-> FALSE, touched |-> {},
     last_collection_timestamp |-> Unwritten, returned |-> FALSE,
     all_empty |-> FALSE]

\* every command of the mapping has the empty string as its reply
AllEmpty(command_outputs) ==
    /\ command_outputs.t = "map"
    /\ \A c \in Entries(command_outputs.map) : command_outputs.map[c] = <<>>

\* the gauge families of the shell collector and the command whose reply
\* each of its processing functions reads: _process_sfp_metrics (line 345),
\* _process_pon_metrics (lines 445-457), _process_system_metrics (lines
\* 620, 634) and _process_olt_info (lines 660-664)
SfpReads == [sfp |-> {"sfp info"}]
PonReads ==
    [pon |-> {"onu show pon counter", "onu show ponlink", "onu show pon serdes"}]
SystemReads == [cpu |-> {"sysmon cpu"}, memory |-> {"sysmon memory"}]
OltInfoReads == [olt_vendor |-> {"onu dump ptp"}, olt_version |-> {"onu dump ptp"}]

\* the families a processing function can write: those whose command has an
\* entry in the mapping it is handed
Touched(reads, command_outputs) ==
    {f \in DOMAIN reads : reads[f] \cap Entries(command_outputs.map) # {}}

\* the three processing calls of collect_regular_metrics (lines 123-125)
RegularTouched(command_outputs) ==
    Touched(SfpReads, command_outputs) \cup Touched(PonReads, command_outputs)
        \cup Touched(SystemReads, command_outputs)

\* a collect call that reports success only when some command was answered
CollectRegularMetricsNeedingReplies(o, command_outputs) ==
    [collection_success |->
         Val(IF command_outputs.t = "map" /\ ~AllEmpty(command_outputs) THEN 1 ELSE 0),
     collection_error |-> o.collection_error, cycle |-> "regular",
     failed |-> command_outputs.t # "map", counted |-> FALSE, raised |-> FALSE,
     touched |-> IF command_outputs.t = "map"
                 THEN RegularTouched(command_outputs) ELSE {},
     last_collection_timestamp |->
         IF command_outputs.t = "map" /\ ~AllEmpty(command_outputs)
         THEN Val(sched.now) ELSE o.last_collection_timestamp,
     returned |-> command_outputs.t = "map" /\ ~AllEmpty(command_outputs),
     all_empty |-> AllEmpty(command_outputs)]

\* collect_regular_metrics (lines 110-144): success starts False; a session
\* that returned nothing is logged in the else branch, the except clause
\* with the counter is not entered; finally writes collection_success and,
\* on success, last_collection_timestamp
CollectRegularMetrics(o, command_outputs) ==
    [collection_success |-> Val(IF command_outputs.t = "map" THEN 1 ELSE 0),
     collection_error |-> o.collection_error, cycle |-> "regular",
     failed |-> command_outputs.t # "map", counted |-> FALSE, raised |-> FALSE,
     touched |-> IF command_outputs.t = "map"
                 THEN RegularTouched(command_outputs) ELSE {},
     last_collection_timestamp |-> IF command_outputs.t = "map"
                                   THEN Val(sched.now)
                                   ELSE o.last_collection_timestamp,
     returned |-> command_outputs.t = "map",
     all_empty |-> AllEmpty(command_outputs)]

\* collect_olt_vendor_info (lines 146-175): success is bound only after the
\* mapping was processed; otherwise `1 if success else 0` in the finally
\* clause raises UnboundLocalError before collection_success is written
CollectOltVendorInfo(o, command_outputs) ==
    IF command_outputs.t = "map"
    THEN [collection_success |-> Val(1), collection_error |-> o.collection_error,
          cycle |-> "olt_vendor", failed |-> FALSE, counted |-> FALSE,
          raised |-> FALSE, touched |-> Touched(OltInfoReads, command_outputs),
          last_collection_timestamp |-> Val(sched.now), returned |-> TRUE,
          all_empty |-> AllEmpty(command_outputs)]
    ELSE [o EXCEPT !.cycle = "olt_vendor", !.failed = TRUE, !.counted = FALSE,
                   !.raised = TRUE, !.touched = {}, !.returned = FALSE,
                   !.all_empty = FALSE]

\* zaram_ont_collector.collect_regular_metrics() calls
\* _connect_and_collect_regular()   (line 119)
CollectRegularStart ==
    /\ sched.pc = "collect_regular"
    /\ sess' = NewSession("regular", None)
    /\ started' = started + 1
    /\ sched' = [sched EXCEPT !.pc = "collect_regular_wait"]
    /\ UNCHANGED open_children
    /\ HttpIdle /\ CollectorsIdle /\ OntIdle

\* collect_regular_metrics() returns (its try/except/finally lets nothing
\* escape); last_regular_collection = current_time   (lines 60-61)
CollectRegularEnd ==
    /\ sched.pc = "collect_regular_wait"
    /\ sess.pc = "done"
    /\ sess' = IdleSession
    /\ sched' = [sched EXCEPT !.pc = "check_olt",
                              !.last_regular_collection = sched.current_time]
    /\ ont' = CollectRegularMetrics(ont, sess.ret)
    /\ UNCHANGED <<open_children, started>>
    /\ HttpIdle /\ CollectorsIdle

\* is the OLT vendor collection due?   (lines 68-70)
CheckOlt ==
    /\ sched.pc = "check_olt"
    /\ IF sched.current_time - sched.last_olt_vendor_collection >= olt_vendor_interval
       THEN /\ sess' = NewSession("olt_vendor", None)
            /\ started' = started + 1
            /\ sched' = [sched EXCEPT !.pc = "collect_olt_wait"]
       ELSE /\ sched' = [sched EXCEPT !.pc = "sleep"]
            /\ UNCHANGED <<sess, started>>
    /\ UNCHANGED open_children
    /\ HttpIdle /\ CollectorsIdle /\ OntIdle

\* a scheduler that records the slow cadence's run even when its body raised
CollectOltEndRecordingRun ==
    /\ sched.pc = "collect_olt_wait"
    /\ sess.pc = "done"
    /\ sess' = IdleSession
    /\ sched' = [sched EXCEPT !.pc = IF sess.ret.t = "map" THEN "sleep" ELSE "error_sleep",
                              !.last_olt_vendor_collection = sched.current_time]
    /\ ont' = CollectOltVendorInfo(ont, sess.ret)
    /\ UNCHANGED <<open_children, started>>
    /\ HttpIdle /\ CollectorsIdle

\* collect_olt_vendor_info() returns or raises: `success` is assigned only
\* after a mapping was processed (zaram_ont_collector.py line 158), so when
\* the session returned None the finally clause (line 171) raises
\* UnboundLocalError, which main() catches (lines 76-78)
CollectOltEnd ==
    /\ sched.pc = "collect_olt_wait"
    /\ sess.pc = "done"
    /\ sess' = IdleSession
    /\ sched' = IF sess.ret.t = "map"
                THEN [sched EXCEPT !.pc = "sleep",
                                   !.last_olt_vendor_collection = sched.current_time]
                ELSE [sched EXCEPT !.pc = "error_sleep"]
    /\ ont' = CollectOltVendorInfo(ont, sess.ret)
    /\ UNCHANGED <<open_children, started>>
    /\ HttpIdle /\ CollectorsIdle

\* time.sleep(1)   (line 74)
Sleep ==
    /\ sched.pc = "sleep"
    /\ sched.now + TickSleep <= StartTime + MaxTime
    /\ sched' = [sched EXCEPT !.pc = "top", !.now = @ + TickSleep]
    /\ SessIdle /\ HttpIdle /\ CollectorsIdle /\ OntIdle

\* except Exception: time.sleep(60)   (lines 76-78)
SleepAfterErrorOneTick ==
    /\ sched.pc = "error_sleep"
    /\ sched.now + TickSleep <= StartTime + MaxTime
    /\ sched' = [sched EXCEPT !.pc = "top", !.now = @ + TickSleep]
    /\ SessIdle /\ HttpIdle /\ CollectorsIdle /\ OntIdle

SleepAfterError ==
    /\ sched.pc = "error_sleep"
    /\ sched.now + ErrorSleep <= StartTime + MaxTime
    /\ sched' = [sched EXCEPT !.pc = "top", !.now = @ + ErrorSleep]
    /\ SessIdle /\ HttpIdle /\ CollectorsIdle /\ OntIdle

MainStep ==
    \/ LoopTop
    \/ CollectRouterOS
    \/ CollectRegularStart
    \/ CollectRegularEnd
    \/ CheckOlt
    \/ CollectOltEnd
    \/ Sleep
    \/ SleepAfterError

\* ======================================================================
\*  RouterOS collection cycle: RouterOSCollector.collect_interface_metrics
\*  and collect_sfp_metrics
\* ======================================================================

\* config.monitored_interfaces: MONITORED_INTERFACES split at the commas
DefaultMonitored == <<"sfp-sfpplus1", "pppoe-wan">>
MonitoredConfigs == {DefaultMonitored, <<"ether1", "pppoe-wan">>}

\* interface names a router reports; "" is iface.get('name', '') of a
\* descriptor without a name
InterfaceNames == {"sfp-sfpplus1", "pppoe-wan", "ether1", "ether2", ""}

BoolVal(b) == [type |-> "bool", chars |-> <<>>, num |-> IF b THEN 1 ELSE 0]

TrueStr == <<"t", "r", "u", "e">>
FalseStr == <<"f", "a", "l", "s", "e">>

LowerChar(c) ==
    CASE c = "T" -> "t" [] c = "R" -> "r" [] c = "U" -> "u" [] c = "E" -> "e"
      [] c = "F" -> "f" [] c = "A" -> "a" [] c = "L" -> "l" [] c = "S" -> "s"
      [] c = "O" -> "o" [] c = "K" -> "k" [] c = "I" -> "i" [] c = "N" -> "n"
      [] c = "C" -> "c" [] c = "D" -> "d" [] c = "P" -> "p" [] c = "W" -> "w"
      [] c = "B" -> "b" [] c = "M" -> "m" [] c = "V" -> "v" [] c = "X" -> "x"
      [] OTHER -> c

\* str.lower()
Lower(chars) == [i \in 1..Len(chars) |-> LowerChar(chars[i])]

\* float(x): a numeric string, a number or a bool converts; None raises
\* TypeError and other text ValueError
FloatOf(v) ==
    CASE v.type = "str" -> FloatOfStr(v.chars)
      [] v.type = "num" -> Ok(v.num)
      [] v.type = "bool" -> Ok(v.num * Scale)
      [] OTHER -> Err

\* stats_mapping of _update_interface_stats (lines 262-272)
stats_mapping ==
    <<<<"rx-byte", "interface_rx_bytes">>,
      <<"tx-byte", "interface_tx_bytes">>,
      <<"rx-packet", "interface_rx_packets">>,
      <<"tx-packet", "interface_tx_packets">>,
      <<"rx-error", "interface_rx_errors">>,
      <<"tx-error", "interface_tx_errors">>,
      <<"rx-drop", "interface_rx_drops">>,
      <<"tx-drop", "interface_tx_drops">>,
      <<"tx-queue-drop", "interface_tx_queue_drops">>>>

StatKeys == {stats_mapping[i][1] : i \in 1..Len(stats_mapping)}

\* error_mapping of _collect_sfp_error_stats (lines 420-434)
error_mapping ==
    <<<<"sfp-tx-fcs-error", "sfp_tx_fcs_error">>,
      <<"sfp-tx-collision", "sfp_tx_collision">>,
      <<"sfp-tx-excessive-collision", "sfp_tx_excessive_collision">>,
      <<"sfp-tx-late-collision", "sfp_tx_late_collision">>,
      <<"sfp-tx-deferred", "sfp_tx_deferred">>,
      <<"sfp-rx-too-short", "sfp_rx_too_short">>,
      <<"sfp-rx-too-long", "sfp_rx_too_long">>,
      <<"sfp-rx-jabber", "sfp_rx_jabber">>,
      <<"sfp-rx-fcs-error", "sfp_rx_fcs_error">>,
      <<"sfp-rx-align-error", "sfp_rx_align_error">>,
      <<"sfp-rx-fragment", "sfp_rx_fragment">>,
      <<"sfp-rx-overflow", "sfp_rx_overflow">>,
      <<"sfp-tx-underrun", "sfp_tx_underrun">>>>

ErrorStatKeys == {error_mapping[i][1] : i \in 1..Len(error_mapping)}

InterfaceMetrics ==
    {"interface_link_status", "interface_link_downs",
     "interface_last_link_up", "interface_last_link_down"}
    \cup {stats_mapping[i][2] : i \in 1..Len(stats_mapping)}

SfpMetrics ==
    {"sfp_temperature", "sfp_tx_bias_current", "sfp_voltage",
     "sfp_rx_power", "sfp_tx_power", "sfp_data_stale_rx_power",
     "sfp_data_stale_tx_power", "sfp_vendor_serial"}
    \cup {error_mapping[i][2] : i \in 1..Len(error_mapping)}

RosMetrics == InterfaceMetrics \cup SfpMetrics

\* ---- the JSON the router returns --------------------------------------

JNone == [type |-> "none", items |-> <<>>]
JList(items) == [type |-> "list", items |-> items]
JDict(obj) == [type |-> "dict", items |-> <<obj>>]
\* a bare value that is not an object, e.g. a non-empty string
JScalar == [type |-> "scalar", items |-> <<>>]

\* `not x` for a parsed body
JFalsy(j) == j.type = "none" \/ (j.type = "list" /\ j.items = <<>>)

GoodTime == "2024-05-01 10:00:00"
BadTime == "may/01/2024 10:00:00"
\* datetime.strptime(s, '%Y-%m-%d %H:%M:%S').timestamp(), in seconds
Strptime(s) == IF s = GoodTime THEN Ok(17145) ELSE Err

NoStats == [k \in StatKeys |-> Absent]

\* an interface descriptor with only a name, an id and a running flag
BaseIface(name, id, running) ==
    [name |-> name, id |-> id, running |-> running, link_downs |-> Absent,
     last_link_up |-> None, last_link_down |-> None, stats |-> NoStats]

Num12345 == <<"1", "2", "3", "4", "5">>

\* bodies of GET /rest/interface
InterfaceBodies ==
    {"ifaces_scenario", "ifaces_pppoe", "ifaces_down", "ifaces_empty",
     "error_object", "ifaces_restarted"}

\* bodies of GET /rest/interface/pppoe-client
PppoeBodies ==
    {"pppoe_up", "pppoe_upper", "pppoe_down", "pppoe_other", "pppoe_norunning"}

PppoeEntry(name, running, status) ==
    [name |-> name, running |-> running, status |-> status]

\* response.json() of each body
JsonOf(body) ==
    CASE body = "ifaces_scenario" ->
            JList(<<[BaseIface("sfp-sfpplus1", "*1", StrVal(TrueStr)) EXCEPT
                        !.stats["rx-byte"] = StrVal(Num12345),
                        !.link_downs = StrVal(<<"3">>),
                        !.last_link_up = GoodTime],
                    [BaseIface("ether1", "*2", StrVal(TrueStr)) EXCEPT
                        !.stats["rx-byte"] = StrVal(<<"7">>),
                        !.stats["tx-queue-drop"] = NumVal(20)]>>)
      [] body = "ifaces_pppoe" ->
            JList(<<[BaseIface("pppoe-wan", "*9", StrVal(FalseStr)) EXCEPT
                        !.stats["tx-byte"] = NumVal(70)],
                    [BaseIface("sfp-sfpplus1", "*1", BoolVal(TRUE)) EXCEPT
                        !.stats["rx-byte"] = StrVal(<<"a", "b", "c">>),
                        !.stats["rx-error"] = NullVal,
                        !.link_downs = StrVal(<<"x">>),
                        !.last_link_down = BadTime],
                    BaseIface("ether2", "*3", StrVal(TrueStr))>>)
      [] body = "ifaces_down" ->
            JList(<<[BaseIface("sfp-sfpplus1", "*1", StrVal(<<"T", "r", "u", "e">>)) EXCEPT
                        !.stats["tx-error"] = StrVal(<<"0">>),
                        !.last_link_down = GoodTime],
                    BaseIface("pppoe-wan", "*9", StrVal(TrueStr)),
                    BaseIface("ether1", "*2", BoolVal(FALSE)),
                    BaseIface("", "*4", Absent)>>)
      [] body = "ifaces_restarted" ->
            \* the interfaces of ifaces_scenario after their totals restarted
            JList(<<[BaseIface("sfp-sfpplus1", "*1", StrVal(TrueStr)) EXCEPT
                        !.stats["rx-byte"] = StrVal(<<"1", "2", "0">>),
                        !.link_downs = StrVal(<<"0">>),
                        !.last_link_up = GoodTime],
                    [BaseIface("ether1", "*2", StrVal(TrueStr)) EXCEPT
                        !.stats["rx-byte"] = StrVal(<<"7">>),
                        !.stats["tx-queue-drop"] = NumVal(0)]>>)
      [] body = "ifaces_empty" -> JList(<<>>)
      [] body = "error_object" -> JDict([detail |-> "error"])
      [] body = "pppoe_up" ->
            JList(<<PppoeEntry("pppoe-wan", StrVal(TrueStr), "disconnected")>>)
      [] body = "pppoe_upper" ->
            JList(<<PppoeEntry("pppoe-wan", StrVal(<<"T", "R", "U", "E">>), "connected")>>)
      [] body = "pppoe_down" ->
            JList(<<PppoeEntry("pppoe-out1", StrVal(TrueStr), "connected"),
                    PppoeEntry("pppoe-wan", StrVal(FalseStr), "connected")>>)
      [] body = "pppoe_other" ->
            JList(<<PppoeEntry("pppoe-out1", StrVal(TrueStr), "connected")>>)
      [] body = "pppoe_norunning" ->
            JList(<<PppoeEntry("pppoe-wan", Absent, "connected")>>)
      [] OTHER -> JScalar

\* what _make_request hands to the collector
Parsed(ret) == IF ret = None THEN JNone ELSE JsonOf(ret)

\* ---- the environment of the requests of one cycle ----------------------

\* how the router answers one request: with its body, or with one fault
FaultKinds == {"500", "Timeout", "401_none", "401_fresh", "401_twice"}
AnswerKinds == FaultKinds \cup {"ok"}

Status(code, body) == [kind |-> "status", code |-> code, body |-> body]

\* the environment of one _make_request call (see EnvsFor): `pre` is what the
\* lookup yields if the call starts without a password
RequestEnv(body, kind, pre) ==
    CASE kind = "ok" ->
            [pre |-> pre, r1 |-> Status(200, body), fresh |-> None, r2 |-> NoResponse]
      [] kind = "500" ->
            [pre |-> pre, r1 |-> Status(500, None), fresh |-> None, r2 |-> NoResponse]
      [] kind = "Timeout" ->
            [pre |-> pre, r1 |-> [kind |-> "exc", code |-> 0, body |-> "Timeout"],
             fresh |-> None, r2 |-> NoResponse]
      [] kind = "401_none" ->
            [pre |-> pre, r1 |-> Status(401, None), fresh |-> None, r2 |-> NoResponse]
      [] kind = "401_fresh" ->
            [pre |-> pre, r1 |-> Status(401, None), fresh |-> "s2",
             r2 |-> Status(200, body)]
      [] OTHER ->
            [pre |-> pre, r1 |-> Status(401, None), fresh |-> "s2",
             r2 |-> Status(401, None)]

\* the requests of one collect_all_metrics call, in the order they are made
RequestNames == <<"interface", "pppoe-client", "interface (sfp)", "monitor", "error stats">>

\* what the router holds during one cycle: the body of each endpoint
RouterState(ifaces, pppoe, monitor, errstats) ==
    <<ifaces, pppoe, ifaces, monitor, errstats>>

RouterStates ==
    {RouterState("ifaces_scenario", "pppoe_up", "mon_up", "mon_up"),
     RouterState("ifaces_scenario", "pppoe_other", "mon_list", "mon_list"),
     RouterState("ifaces_scenario", "pppoe_up", "mon_down", "mon_bare"),
     RouterState("ifaces_scenario", "pppoe_up", "mon_empty", "mon_up"),
     RouterState("ifaces_scenario", "pppoe_up", "mon_bare", "mon_up"),
     RouterState("ifaces_empty", "pppoe_up", "mon_up", "mon_up"),
     RouterState("error_object", "pppoe_up", "mon_up", "mon_up")}
    \cup {RouterState(i, p, "mon_list", "mon_up") :
            i \in {"ifaces_pppoe", "ifaces_down"}, p \in PppoeBodies}

\* the router states whose requests are also tried with a fault
FaultedStates ==
    {RouterState("ifaces_scenario", "pppoe_up", "mon_up", "mon_up"),
     RouterState("ifaces_down", "pppoe_upper", "mon_list", "mon_up")}

AllOk == [i \in 1..Len(RequestNames) |-> "ok"]

\* a cycle without a fault, or with one fault at one of its requests
CycleInputs ==
    {[bodies |-> s, answers |-> AllOk] : s \in RouterStates}
    \cup {[bodies |-> s, answers |-> [AllOk EXCEPT ![i] = k]] :
            s \in FaultedStates, i \in 1..Len(RequestNames), k \in FaultKinds}

\* the lookup result matters when a request can start without a password
Lookups(pw, answers) ==
    IF ~Truthy(pw) \/ \E i \in 1..Len(answers) : answers[i] = "401_none"
    THEN {None, "s2"} ELSE {None}

EnvOf(in, i, pre) == RequestEnv(in.bodies[i], in.answers[i], pre)

\* ---- collect_interface_metrics ----------------------------------------

\* the element of a singleton: The({e : x \in {v}}) is `e` with the local `x`
\* assigned `v` once
The(S) == CHOOSE r \in S : TRUE

\* a write that adds the value to the one exposed
WriteAdding(st, metric, name, value) ==
    [st EXCEPT !.metrics[metric][name] =
                   Val(IF @.set THEN @.val + value ELSE value),
               !.written = @ \cup {<<metric, name>>}]

\* metric.labels(interface_name=name).set(value)
Write(st, metric, name, value) ==
    [st EXCEPT !.metrics[metric][name] = Val(value),
               !.written = @ \cup {<<metric, name>>}]

\* line 120: == 'true' for a string, bool() for anything else
GenericRunning(v) ==
    IF v.type = "str" THEN v.chars = TrueStr
    ELSE IF v.type \in {"bool", "num"} THEN v.num # 0
    ELSE FALSE

\* _get_pppoe_status (lines 221-240)
GetPppoeStatus(pppoe_interfaces, interface_name) ==
    IF JFalsy(pppoe_interfaces) THEN FALSE
    ELSE LET items == pppoe_interfaces.items
             hits == {i \in 1..Len(items) : items[i].name = interface_name}
         IN IF hits = {} THEN FALSE
            ELSE LET pppoe_client == items[CHOOSE i \in hits : \A j \in hits : i <= j]
                     running == IF pppoe_client.running.type = "absent"
                                THEN <<>> ELSE pppoe_client.running.chars
                 IN Lower(running) = TrueStr

\* lines 127-133
UpdateLinkDowns(st, iface, name) ==
    IF iface.link_downs.type # "absent" /\ FloatOf(iface.link_downs).ok
    THEN Write(st, "interface_link_downs", name, FloatOf(iface.link_downs).val)
    ELSE st

\* _update_link_timestamps (lines 242-258)
UpdateLinkTimestamps(st, iface, name) ==
    LET up == IF iface.last_link_up # None /\ Strptime(iface.last_link_up).ok
              THEN Write(st, "interface_last_link_up", name,
                         Strptime(iface.last_link_up).val)
              ELSE st
    IN IF iface.last_link_down # None /\ Strptime(iface.last_link_down).ok
       THEN Write(up, "interface_last_link_down", name,
                  Strptime(iface.last_link_down).val)
       ELSE up

\* _update_interface_stats (lines 274-281), from entry i of stats_mapping on
RECURSIVE UpdateInterfaceStats(_, _, _, _)
UpdateInterfaceStats(st, iface, name, i) ==
    IF i > Len(stats_mapping) THEN st
    ELSE LET stat == stats_mapping[i][1]
             metric == stats_mapping[i][2]
             v == iface.stats[stat]
             next == IF v.type # "absent" /\ FloatOf(v).ok
                     THEN Write(st, metric, name, FloatOf(v).val)
                     ELSE st
         IN UpdateInterfaceStats(next, iface, name, i + 1)

LinkStatusInverted(running) == IF running THEN 0 ELSE 1

\* line 123: 1 if running else 0
LinkStatus(running) == IF running THEN 1 ELSE 0

\* line 111: name in config.monitored_interfaces
IsMonitored(name, monitored) == name \in Range(monitored)

PppoeFromDescriptor(iface, pppoe_interfaces, name) == GenericRunning(iface.running)

\* lines 117-120
RunningOf(iface, pppoe_interfaces, name) ==
    IF name = "pppoe-wan"
    THEN GetPppoeStatus(pppoe_interfaces, name)
    ELSE GenericRunning(iface.running)

\* the body of `for iface in interfaces` (lines 107-139)
ProcessInterface(st, iface, pppoe_interfaces, monitored) ==
    LET name == iface.name
    IN IF ~IsMonitored(name, monitored) THEN st
       ELSE LET running == RunningOf(iface, pppoe_interfaces, name)
                s1 == Write(st, "interface_link_status", name, LinkStatus(running))
                s2 == UpdateLinkDowns(s1, iface, name)
                s3 == UpdateLinkTimestamps(s2, iface, name)
            IN UpdateInterfaceStats(s3, iface, name, 1)

RECURSIVE ProcessInterfaces(_, _, _, _, _)
ProcessInterfaces(st, items, i, pppoe_interfaces, monitored) ==
    IF i > Len(items) THEN st
    ELSE The({ProcessInterfaces(next, items, i + 1, pppoe_interfaces, monitored) :
              next \in {ProcessInterface(st, items[i], pppoe_interfaces, monitored)}})

NoInc == [k \in ErrorTypes |-> 0]
AddInc(a, b) == [k \in ErrorTypes |-> a[k] + b[k]]

\* lines 106-142, once both endpoints have answered
InterfaceLoop(q1, interfaces, q2, pppoe_interfaces, st0, monitored) ==
    LET both == [pw |-> q2.pw, inc |-> AddInc(q1.inc, q2.inc),
                 interfaces |-> interfaces, pppoe |-> pppoe_interfaces,
                 requests |-> <<q1, q2>>]
    IN IF interfaces.type # "list"
       THEN \* iterating an object yields its keys: iface.get raises
            both @@ [st |-> st0, success |-> FALSE, excepted |-> TRUE]
       ELSE both @@
            [st |-> ProcessInterfaces(st0, interfaces.items, 1,
                                      pppoe_interfaces, monitored),
             success |-> TRUE, excepted |-> FALSE]

\* the try block and the except clause of collect_interface_metrics
\* (lines 87-146): the password and the metrics after it, whether it reached
\* `success = True`, whether the except clause ran
CollectInterfaceMetrics(pw, monitored, metrics, env1, env2, jsonerr) ==
    The({
        LET interfaces == Parsed(q1.ret)
            st0 == [metrics |-> metrics, written |-> {}]
        IN IF JFalsy(interfaces)
           THEN [pw |-> q1.pw, inc |-> q1.inc, st |-> st0, success |-> FALSE,
                 excepted |-> FALSE, interfaces |-> interfaces, pppoe |-> JNone,
                 requests |-> <<q1>>]
           ELSE The({InterfaceLoop(q1, interfaces, q2, Parsed(q2.ret), st0, monitored) :
                     q2 \in {MakeRequest(q1.pw, "interface/pppoe-client", "GET",
                                         None, None, env2, jsonerr)}})
        : q1 \in {MakeRequest(pw, "interface", "GET", None, None, env1, jsonerr)}})

\* ---- collect_sfp_metrics ----------------------------------------------

NoErrorStats == [k \in ErrorStatKeys |-> Absent]

\* an object of the monitor endpoint with only a name and a status
BaseMonitor(name, status) ==
    [name |-> name, status |-> status, temperature |-> Absent,
     bias |-> Absent, voltage |-> Absent, rx |-> Absent, tx |-> Absent,
     serial |-> None, errs |-> NoErrorStats]

LinkOk == <<"l", "i", "n", "k", "-", "o", "k">>
NoLink == <<"n", "o", "-", "l", "i", "n", "k">>

\* bodies of POST /rest/interface/ethernet/monitor
MonitorBodies ==
    {"mon_up", "mon_list", "mon_down", "mon_empty", "mon_bare", "mon_restarted"}

MonitorOf(body) ==
    CASE body = "mon_up" ->
            JDict([BaseMonitor("sfp-sfpplus1", StrVal(LinkOk)) EXCEPT
                    !.temperature = StrVal(<<"5", "3", ".", "2", "C">>),
                    !.voltage = StrVal(<<"3", ".", "3", "V">>),
                    !.rx = StrVal(<<"-", "5", ".", "0", "d", "B", "m">>),
                    !.tx = NumVal(21),
                    !.serial = "ZRMT0001",
                    !.errs["sfp-rx-fcs-error"] = StrVal(<<"4">>)])
      [] body = "mon_restarted" ->
            \* the module of mon_up after its error totals restarted
            JDict([BaseMonitor("sfp-sfpplus1", StrVal(LinkOk)) EXCEPT
                    !.temperature = StrVal(<<"5", "3", ".", "2", "C">>),
                    !.voltage = StrVal(<<"3", ".", "3", "V">>),
                    !.rx = StrVal(<<"-", "5", ".", "0", "d", "B", "m">>),
                    !.tx = NumVal(21),
                    !.serial = "ZRMT0001",
                    !.errs["sfp-rx-fcs-error"] = StrVal(<<"1">>)])
      [] body = "mon_list" ->
            JList(<<[BaseMonitor("ether1", StrVal(LinkOk)) EXCEPT
                        !.temperature = StrVal(<<"9", "9">>)],
                    [BaseMonitor("sfp-sfpplus1", StrVal(<<"L", "I", "N", "K", "-", "O", "K">>)) EXCEPT
                        !.bias = StrVal(<<"1", "8", ".", "3", "m", "A">>),
                        !.tx = StrVal(<<"d", "B", "m">>),
                        !.errs["sfp-tx-underrun"] = NumVal(10)]>>)
      [] body = "mon_down" ->
            JDict([BaseMonitor("sfp-sfpplus1", StrVal(NoLink)) EXCEPT
                    !.temperature = StrVal(<<"h", "o", "t">>),
                    !.rx = StrVal(<<"-", "5", ".", "0", "d", "B", "m">>),
                    !.tx = StrVal(<<"-", "4", "1", " ", "d", "B", "m">>),
                    !.serial = "",
                    !.errs["sfp-rx-too-long"] = StrVal(<<"x">>)])
      [] body = "mon_empty" -> JList(<<>>)
      [] OTHER -> JScalar

ParsedMonitor(ret) == IF ret = None THEN JNone ELSE MonitorOf(ret)

\* lines 298-301: strip the unit when the text contains it, then float()
ParseUnit(v, unit) ==
    IF v.type = "str" /\ Contains(v.chars, unit)
    THEN FloatOfStr(RStrip(v.chars, Range(unit)))
    ELSE FloatOf(v)

\* one of the three blocks of lines 295-331
ProcessReading(st, v, unit, metric, name) ==
    IF v.type # "absent" /\ ParseUnit(v, unit).ok
    THEN Write(st, metric, name, ParseUnit(v, unit).val)
    ELSE st

PowerMetric(mt) == IF mt = "rx_power" THEN "sfp_rx_power" ELSE "sfp_tx_power"
StaleMetric(mt) ==
    IF mt = "rx_power" THEN "sfp_data_stale_rx_power" ELSE "sfp_data_stale_tx_power"

\* the children of sfp_rx_power, sfp_tx_power and sfp_data_stale that
\* _process_optical_power wrote, under the label it was called with
PublishPower(st, g, name, mt) ==
    IF mt \in g.written
    THEN Write(Write(st, StaleMetric(mt), name, g.sfp_data_stale[mt]),
               PowerMetric(mt), name, g.sfp_power[mt])
    ELSE st

\* _process_sfp_vendor_serial (lines 386-406)
ProcessSfpVendorSerial(c, sfp_data, name) ==
    IF sfp_data.serial # None /\ sfp_data.serial # ""
    THEN [c EXCEPT !.st = Write(@, "sfp_vendor_serial", name, 1),
                   !.serial = sfp_data.serial]
    ELSE c

\* lines 333-337 of _process_sfp_metrics: the optical power, then the serial
ProcessPowerAndSerial(c, st, g, sfp_data, name, link_is_up) ==
    ProcessSfpVendorSerial(
        [c EXCEPT !.st = PublishPower(PublishPower(st, g, name, "rx_power"),
                                      g, name, "tx_power"),
                  !.g = g, !.processed = TRUE, !.link_is_up = link_is_up,
                  !.rx = sfp_data.rx, !.tx = sfp_data.tx],
        sfp_data, name)

\* _process_sfp_metrics (lines 283-337)
ProcessSfpMetrics(c, sfp_data, name) ==
    LET sfp_status == IF sfp_data.status.type = "absent"
                      THEN <<"d", "o", "w", "n">> ELSE Lower(sfp_data.status.chars)
        link_is_up == sfp_status = LinkOk
    IN ProcessPowerAndSerial(
           c,
           ProcessReading(
               ProcessReading(
                   ProcessReading(c.st, sfp_data.temperature, <<"C">>,
                                  "sfp_temperature", name),
                   sfp_data.bias, <<"m", "A">>, "sfp_tx_bias_current", name),
               sfp_data.voltage, <<"V">>, "sfp_voltage", name),
           ProcessOpticalPower(c.g, sfp_data.rx, sfp_data.tx, link_is_up),
           sfp_data, name, link_is_up)

\* the loop of _collect_sfp_error_stats (lines 436-443), from entry i on
RECURSIVE UpdateErrorStats(_, _, _, _)
UpdateErrorStats(st, error_stats, name, i) ==
    IF i > Len(error_mapping) THEN st
    ELSE LET v == error_stats.errs[error_mapping[i][1]]
             next == IF v.type # "absent" /\ FloatOf(v).ok
                     THEN Write(st, error_mapping[i][2], name, FloatOf(v).val)
                     ELSE st
         IN UpdateErrorStats(next, error_stats, name, i + 1)

\* lines 415-443 of _collect_sfp_error_stats, once the request has answered
ErrorStatsOf(c, q, error_stats, name) ==
    LET c1 == [c EXCEPT !.pw = q.pw, !.inc = AddInc(@, q.inc),
                        !.requests = Append(@, q)]
    IN IF error_stats.type # "dict" THEN c1
       ELSE [c1 EXCEPT !.st = UpdateErrorStats(@, error_stats.items[1], name, 1)]

\* _collect_sfp_error_stats (lines 408-446)
CollectSfpErrorStats(c, iface_id, name, envE, jsonerr) ==
    The({ErrorStatsOf(c, q, ParsedMonitor(q.ret), name) :
         q \in {MakeRequest(c.pw, "interface/ethernet/monitor", "POST", iface_id,
                            None, envE, jsonerr)}})

\* lines 191-196: the element named like the interface, else the first
Normalize(sfp_data, name) ==
    IF sfp_data.type = "list"
    THEN LET hits == {i \in 1..Len(sfp_data.items) : sfp_data.items[i].name = name}
         IN IF hits = {} THEN JDict(sfp_data.items[1])
            ELSE JDict(sfp_data.items[CHOOSE i \in hits : \A j \in hits : i <= j])
    ELSE sfp_data

\* line 175: the SFP interface is the one named 'sfp-sfpplus1'
SfpInterface(name) == name = "sfp-sfpplus1"

\* lines 186-202, once the monitor request has answered with `sfp_data`
ProcessMonitor(c, q, sfp_data, iface, name, envE, jsonerr) ==
    LET c1 == [c EXCEPT !.pw = q.pw, !.inc = AddInc(@, q.inc),
                        !.requests = Append(@, q), !.monitor = sfp_data]
    IN IF JFalsy(sfp_data) THEN c1
       ELSE IF Normalize(sfp_data, name).type # "dict"
       THEN \* sfp_data.get on a bare value raises AttributeError
            [c1 EXCEPT !.excepted = TRUE]
       ELSE The({CollectSfpErrorStats(c2, iface.id, name, envE, jsonerr) :
                 c2 \in {ProcessSfpMetrics(c1, Normalize(sfp_data, name).items[1],
                                           name)}})

\* the body of `for iface in interfaces` (lines 173-202)
ProcessSfpInterface(c, iface, envM, envE, jsonerr) ==
    LET name == iface.name
    IN IF c.excepted \/ ~SfpInterface(name) THEN c
       ELSE The({ProcessMonitor(c, q, ParsedMonitor(q.ret), iface, name, envE, jsonerr) :
                 q \in {MakeRequest(c.pw, "interface/ethernet/monitor", "POST",
                                    iface.id, None, envM, jsonerr)}})

RECURSIVE ProcessSfpInterfaces(_, _, _, _, _, _)
ProcessSfpInterfaces(c, items, i, envM, envE, jsonerr) ==
    IF i > Len(items) THEN c
    ELSE The({ProcessSfpInterfaces(next, items, i + 1, envM, envE, jsonerr) :
              next \in {ProcessSfpInterface(c, items[i], envM, envE, jsonerr)}})

\* lines 167-205, once the interfaces endpoint has answered
SfpLoop(q1, interfaces, metrics, g, serial, envM, envE, jsonerr) ==
    LET c0 == [pw |-> q1.pw, inc |-> q1.inc,
               st |-> [metrics |-> metrics, written |-> {}],
               g |-> g, serial |-> serial, processed |-> FALSE,
               link_is_up |-> FALSE, rx |-> Absent, tx |-> Absent,
               success |-> FALSE, excepted |-> FALSE,
               interfaces |-> interfaces, monitor |-> JNone, requests |-> <<q1>>]
    IN IF JFalsy(interfaces) THEN c0
       ELSE IF interfaces.type # "list" THEN [c0 EXCEPT !.excepted = TRUE]
       ELSE The({[c EXCEPT !.success = ~c.excepted] :
                 c \in {ProcessSfpInterfaces(c0, interfaces.items, 1,
                                             envM, envE, jsonerr)}})

\* the try block and the except clause of collect_sfp_metrics (lines 163-209)
CollectSfpMetrics(pw, metrics, g, serial, env1, envM, envE, jsonerr) ==
    The({SfpLoop(q1, Parsed(q1.ret), metrics, g, serial, envM, envE, jsonerr) :
         q1 \in {MakeRequest(pw, "interface", "GET", None, None, env1, jsonerr)}})

\* ---- collect_all_metrics as one step ------------------------------------

NoCollectObs ==
    [success |-> FALSE, excepted |-> FALSE, written |-> {}, requests |-> <<>>]

NoRosObs ==
    [done |-> FALSE, input |-> [bodies |-> <<>>, answers |-> <<>>], pre |-> None,
     pw_before |-> None, interface |-> NoCollectObs, sfp |-> NoCollectObs,
     interfaces |-> JNone, pppoe |-> JNone, monitor |-> JNone,
     returned |-> FALSE, raised |-> FALSE]

InitRos ==
    ros \in {[monitored |-> m,
              metrics |-> [k \in RosMetrics |-> [n \in InterfaceNames |-> Unwritten]],
              written |-> {},
              collection_success |-> Unwritten,
              last_collection |-> 0,
              cycle_errors |-> [interface_collection |-> 0, sfp_collection |-> 0],
              last_sfp_vendor_serial |-> None,
              calls |-> 0,
              prev |-> [k \in RosMetrics |-> [n \in InterfaceNames |-> Unwritten]],
              repeat |-> FALSE,
              obs |-> NoRosObs] : m \in MonitoredConfigs}

\* the except and finally clauses (lines 144-156, 207-219): what one collect
\* operation leaves in the registry
Finally(r, c, op) ==
    [r EXCEPT !.metrics = c.st.metrics,
              !.written = @ \cup c.st.written,
              !.collection_success = Val(IF c.success THEN 1 ELSE 0),
              !.last_collection = IF c.success THEN r.calls + 1 ELSE @,
              !.cycle_errors[op] = @ + (IF c.excepted THEN 1 ELSE 0)]

CollectObs(c) ==
    [success |-> c.success, excepted |-> c.excepted, written |-> c.st.written,
     requests |-> c.requests]

\* what one collect_all_metrics call leaves behind: `a` and `b` are the two
\* collect operations, r2 the registry after both
CycleResult(pw, in, pre, a, b, r2) ==
    [pw |-> b.pw, inc |-> AddInc(a.inc, b.inc), g |-> b.g,
     processed |-> b.processed,
     power |-> PowerCall("collector", b.link_is_up, b.rx, b.tx, StartTime, gauges),
     ros |-> [r2 EXCEPT
                 !.last_sfp_vendor_serial = b.serial,
                 !.calls = @ + 1,
                 !.obs = [done |-> TRUE, input |-> in, pre |-> pre,
                          pw_before |-> pw,
                          interface |-> CollectObs(a), sfp |-> CollectObs(b),
                          interfaces |-> a.interfaces, pppoe |-> a.pppoe,
                          monitor |-> b.monitor,
                          returned |-> a.success /\ b.success,
                          raised |-> FALSE]]]

\* collect_all_metrics (lines 448-453): collect_interface_metrics, then
\* collect_sfp_metrics, then `interface_success and sfp_success`
CollectAllMetrics(pw, r, g, in, pre, jsonerr) ==
    The({
        LET r1 == Finally([r EXCEPT !.written = {}], a, "interface_collection")
        IN The({CycleResult(pw, in, pre, a, b, Finally(r1, b, "sfp_collection")) :
                b \in {CollectSfpMetrics(a.pw, r1.metrics, g, r.last_sfp_vendor_serial,
                                         EnvOf(in, 3, pre), EnvOf(in, 4, pre),
                                         EnvOf(in, 5, pre), jsonerr)}})
        : a \in {CollectInterfaceMetrics(pw, r.monitored, r.metrics,
                                         EnvOf(in, 1, pre), EnvOf(in, 2, pre), jsonerr)}})

\* one collect_all_metrics call against the replies `in`; `prev` keeps the
\* registry as it was before the call, `repeat` tells that the call met the
\* replies of the call before it
CollectCycle(in, pre) ==
    /\ \E c \in {CollectAllMetrics(api_password, ros, gauges, in, pre, json_error)} :
           /\ api_password' = c.pw
           /\ errors' = AddInc(errors, c.inc)
           /\ gauges' = c.g
           /\ power' = IF c.processed THEN c.power ELSE power
           /\ ros' = [c.ros EXCEPT
                         !.prev = ros.metrics,
                         !.repeat = /\ ros.obs.done
                                    /\ ros.obs.input = in
                                    /\ ros.obs.pre = pre]
    /\ UNCHANGED <<json_error, req, sess, open_children, started, sched,
                   ont, shell, vend>>

DoCollectAllMetrics ==
    /\ ros.calls < MaxCollects
    /\ \E in \in CycleInputs : \E pre \in Lookups(api_password, in.answers) :
           CollectCycle(in, pre)

\* the router after a cycle: counting on with the same totals, or restarted
RestartedBody(body) ==
    CASE body = "ifaces_scenario" -> "ifaces_restarted"
      [] body = "mon_up" -> "mon_restarted"
      [] OTHER -> body

FollowingInputs(in) ==
    {in, [in EXCEPT !.bodies = [i \in 1..Len(in.bodies) |-> RestartedBody(in.bodies[i])]]}

\* the cycle that follows a cycle, against the same router
DoCollectFollowing ==
    /\ ros.obs.done
    /\ ros.calls < MaxCollects + MaxFollowing
    /\ \E in \in FollowingInputs(ros.obs.input) : CollectCycle(in, ros.obs.pre)

\* ======================================================================
\*  Parsing the device's replies: ZaramONTCollector._process_sfp_metrics,
\*  _parse_pon_status and monitor.get_pon_metrics
\* ======================================================================

\* one line of a reply: the label as the patterns spell it, whether the
\* device wrote it in another letter case, the separator, the characters of
\* the value and the unit that follows it
Line(label, upper, sep, value, unit) ==
    [label |-> label, upper |-> upper, sep |-> sep, value |-> value, unit |-> unit]

\* a reply: its lines and its length in characters
Text(lines, len) == [lines |-> lines, len |-> len]

\* the empty string recorded for a command that timed out
EmptyText == Text(<<>>, 0)

ConnectOK == <<"c", "o", "n", "n", "e", "c", "t", "-", "O", "K">>
ConnectFail == <<"c", "o", "n", "n", "e", "c", "t", "-", "F", "A", "I", "L">>
Disconnect == <<"d", "i", "s", "c", "o", "n", "n", "e", "c", "t">>
Up == <<"u", "p">>
Down == <<"d", "o", "w", "n">>

HexDigits == <<"0", "1", "2", "3", "4", "5", "6", "7", "8", "9",
               "a", "b", "c", "d", "e", "f">>
IsHexDigit(c) == \E d \in 1..16 : HexDigits[d] = LowerChar(c)
HexDigitVal(c) == (CHOOSE d \in 1..16 : HexDigits[d] = LowerChar(c)) - 1

RECURSIVE HexVal(_)
HexVal(s) ==
    IF s = <<>> THEN 0
    ELSE HexVal(SubSeq(s, 1, Len(s) - 1)) * 16 + HexDigitVal(s[Len(s)])

HasPrefix0x(s) == Len(s) >= 2 /\ s[1] = "0" /\ s[2] \in {"x", "X"}

\* int(text, 16): an optional 0x prefix, then hexadecimal digits
IntOfHex(s) ==
    IF HasPrefix0x(s) /\ Len(s) > 2 /\ \A i \in 3..Len(s) : IsHexDigit(s[i])
    THEN Ok(HexVal(SubSeq(s, 3, Len(s))))
    ELSE IF s # <<>> /\ \A i \in 1..Len(s) : IsHexDigit(s[i])
    THEN Ok(HexVal(s))
    ELSE Err

\* the character classes of the capture groups
ClassOk(class, fold, value) ==
    CASE class = "float" ->        \* [\d.-]+
            value # <<>> /\ \A i \in 1..Len(value) : IsDigit(value[i]) \/ value[i] \in {".", "-"}
      [] class = "ufloat" ->       \* [\d.]+
            value # <<>> /\ \A i \in 1..Len(value) : IsDigit(value[i]) \/ value[i] = "."
      [] class = "hex0x" ->        \* 0x[0-9a-fA-F]+
            HasPrefix0x(value) /\ value[2] = (IF fold THEN value[2] ELSE "x")
            /\ Len(value) > 2 /\ \A i \in 3..Len(value) : IsHexDigit(value[i])
      [] class = "status" ->       \* (connect-OK|connect-FAIL|disconnect)
            IF fold THEN Lower(value) \in {Lower(ConnectOK), Lower(ConnectFail), Disconnect}
            ELSE value \in {ConnectOK, ConnectFail, Disconnect}
      [] class = "updown" ->       \* (up|down)
            IF fold THEN Lower(value) \in {Up, Down} ELSE value \in {Up, Down}
      [] OTHER ->                  \* \S+ and [^\s]+
            value # <<>> /\ \A i \in 1..Len(value) : value[i] # " "

\* re.search is not anchored: a label pattern also matches a longer label
\* that ends with it
LabelTails ==
    {<<"ponlink-status", "status">>, <<"link status", "status">>,
     <<"pon status", "status">>, <<"uplink", "link">>}

Pattern(label, sep, fold, class, unit) ==
    [label |-> label, sep |-> sep, fold |-> fold, class |-> class, unit |-> unit]

LineMatches(l, pat) ==
    /\ l.label = pat.label \/ <<l.label, pat.label>> \in LabelTails
    /\ pat.fold \/ ~l.upper
    /\ l.sep = pat.sep
    /\ ClassOk(pat.class, pat.fold, l.value)
    /\ \/ pat.unit = <<>>
       \/ IF pat.fold THEN Lower(l.unit) = Lower(pat.unit) ELSE l.unit = pat.unit

\* re.search(pattern, text): the first line that matches, 0 when none does
Found(text, pat) ==
    IF \E i \in 1..Len(text.lines) : LineMatches(text.lines[i], pat)
    THEN CHOOSE i \in 1..Len(text.lines) :
            /\ LineMatches(text.lines[i], pat)
            /\ \A j \in 1..(i - 1) : ~LineMatches(text.lines[j], pat)
    ELSE 0

\* match.group(1)
Group(text, pat) == text.lines[Found(text, pat)].value

\* the patterns of _process_sfp_metrics (lines 358-428), each with the gauge
\* it feeds and the conversion applied to its group
SfpPatterns ==
    <<[pat |-> Pattern("temperature", ":", TRUE, "float", <<"C">>),
       metric |-> "ont_sfp_temperature", conv |-> "float"],
      [pat |-> Pattern("rx optical power", ":", TRUE, "float", <<"d", "B", "m">>),
       metric |-> "ont_sfp_rx_power", conv |-> "float"],
      [pat |-> Pattern("tx output power", ":", TRUE, "float", <<"d", "B", "m">>),
       metric |-> "ont_sfp_tx_power", conv |-> "float"],
      [pat |-> Pattern("supply voltage", ":", TRUE, "ufloat", <<"V">>),
       metric |-> "ont_sfp_voltage", conv |-> "float"],
      [pat |-> Pattern("tx bias current", ":", TRUE, "ufloat", <<"m", "A">>),
       metric |-> "ont_sfp_tx_bias_current", conv |-> "float"],
      [pat |-> Pattern("diagnostic monitoring type", ":", TRUE, "hex0x", <<>>),
       metric |-> "ont_sfp_diagnostic_type", conv |-> "hex"]>>

\* the patterns of _parse_pon_status, in the order they are tried
PonStrict == Pattern("ponlink-status", ":", TRUE, "status", <<>>)
PonFlexible == Pattern("ponlink-status", ":", TRUE, "nonspace", <<>>)
PonFallback == Pattern("link status", ":", TRUE, "updown", <<>>)
alt_patterns ==
    <<Pattern("status", ":", TRUE, "updown", <<>>),
      Pattern("link", ":", TRUE, "updown", <<>>),
      Pattern("pon status", ":", TRUE, "updown", <<>>),
      Pattern("connection", ":", TRUE, "updown", <<>>)>>

\* monitor.py line 254: the pattern is case-sensitive
MonitorPon == Pattern("ponlink-status", ":", FALSE, "nonspace", <<>>)

\* possible_states of _parse_serdes_state (line 590) and, in the same order,
\* the children of ont_pon_serdes_text_state labelled with them
possible_states ==
    <<<<"V", "e", "r", "y", " ", "g", "o", "o", "d">>,
      <<"G", "o", "o", "d">>,
      <<"P", "o", "o", "r">>,
      <<"E", "r", "r", "o", "r">>,
      <<"F", "a", "i", "l", "e", "d">>,
      <<"U", "n", "k", "n", "o", "w", "n">>>>

SerdesTextGauges ==
    <<"ont_pon_serdes_text_state{Very good}", "ont_pon_serdes_text_state{Good}",
      "ont_pon_serdes_text_state{Poor}", "ont_pon_serdes_text_state{Error}",
      "ont_pon_serdes_text_state{Failed}", "ont_pon_serdes_text_state{Unknown}">>

\* the labels _parse_fec_statistics searches (lines 467, 481, 495, 509), each
\* with the gauge it feeds
FecPatterns ==
    <<<<"corrected byte(8-byte)", "ont_pon_fec_corrected_bytes">>,
      <<"corrected code words(8-byte)", "ont_pon_fec_corrected_codewords">>,
      <<"uncorrectable code words(8-byte)", "ont_pon_fec_uncorrectable_codewords">>,
      <<"total code words(8-byte)", "ont_pon_fec_total_codewords">>>>

FecGauges == {FecPatterns[i][2] : i \in 1..Len(FecPatterns)}

OntGauges ==
    {SfpPatterns[i].metric : i \in 1..Len(SfpPatterns)}
        \cup {"ont_pon_link_status", "ont_pon_serdes_state"}
        \cup FecGauges
        \cup {SerdesTextGauges[i] : i \in 1..Len(SerdesTextGauges)}
MonitorGauges == {"pon_link_status"}
ShellGauges == OntGauges \cup MonitorGauges

\* gauge.labels(interface_name=...).set(value)
Put(st, metric, value) ==
    [st EXCEPT !.m[metric] = Val(value), !.written = @ \cup {metric}]

\* float(group) or int(group, 16); ValueError is caught and logged
Convert(conv, chars) == IF conv = "hex" THEN IntOfHex(chars) ELSE FloatOfStr(chars)

\* one `if match: ... else: logging.warning(...)` block of _process_sfp_metrics
ParseAttribute(st, text, p) ==
    IF Found(text, p.pat) # 0 /\ Convert(p.conv, Group(text, p.pat)).ok
    THEN Put(st, p.metric, Convert(p.conv, Group(text, p.pat)).val)
    ELSE st

RECURSIVE ParseAttributes(_, _, _)
ParseAttributes(st, text, i) ==
    IF i > Len(SfpPatterns) THEN st
    ELSE ParseAttributes(ParseAttribute(st, text, SfpPatterns[i]), text, i + 1)

\* _process_sfp_metrics (lines 343-438) on the reply to `sfp info`
ProcessOntSfpMetrics(st, sfp_output) ==
    IF sfp_output.len < 10 THEN st
    ELSE ParseAttributes(st, sfp_output, 1)

\* 1 if 'connect-ok' in status_text else 0
ConnectOkIn(value) == IF Contains(Lower(value), Lower(ConnectOK)) THEN 1 ELSE 0

UpIs1(value) == IF Lower(value) = Up THEN 1 ELSE 0

\* lines 566-574: the first alternative pattern that matches decides
RECURSIVE TryAltPatterns(_, _, _)
TryAltPatterns(st, text, i) ==
    IF i > Len(alt_patterns) THEN st
    ELSE IF Found(text, alt_patterns[i]) # 0
    THEN Put(st, "ont_pon_link_status", UpIs1(Group(text, alt_patterns[i])))
    ELSE TryAltPatterns(st, text, i + 1)

\* _parse_pon_status (lines 521-574) on the reply to `onu show ponlink`
ParsePonStatus(st, status_output) ==
    IF status_output.len < 10 THEN st
    ELSE IF Found(status_output, PonStrict) # 0
    THEN Put(st, "ont_pon_link_status", ConnectOkIn(Group(status_output, PonStrict)))
    ELSE IF Found(status_output, PonFlexible) # 0
    THEN Put(st, "ont_pon_link_status", ConnectOkIn(Group(status_output, PonFlexible)))
    ELSE IF Found(status_output, PonFallback) # 0
    THEN Put(st, "ont_pon_link_status", UpIs1(Group(status_output, PonFallback)))
    ELSE TryAltPatterns(st, status_output, 1)

\* monitor.get_pon_metrics, lines 250-264, on the reply run_sfp_command
\* returned for `onu show ponlink`
GetPonLinkStatus(st, link_output) ==
    IF link_output.len = 0 THEN st
    ELSE IF Found(link_output, MonitorPon) # 0
    THEN Put(st, "pon_link_status",
             IF Group(link_output, MonitorPon) = ConnectOK THEN 1 ELSE 0)
    ELSE Put(st, "pon_link_status", 0)

\* ---- the replies the device can give ----------------------------------

TempLine == Line("temperature", FALSE, ":", <<"5", "3", ".", "2">>, <<"C">>)
RxLine == Line("rx optical power", FALSE, ":", <<"-", "1", "8", ".", "6">>, <<"d", "B", "m">>)
TxLine == Line("tx output power", FALSE, ":", <<"6", ".", "7">>, <<"d", "B", "m">>)
VoltLine == Line("supply voltage", FALSE, ":", <<"3", ".", "3">>, <<"V">>)
BiasLine == Line("tx bias current", FALSE, ":", <<"1", "8", ".", "3">>, <<"m", "A">>)
DiagLine == Line("diagnostic monitoring type", FALSE, ":", <<"0", "x", "6", "8">>, <<>>)
NoiseLine == Line("vendor name", FALSE, ":", <<"Z", "A", "R", "A", "M">>, <<>>)

\* replies to `sfp info`
SfpTexts ==
    {EmptyText,
     Text(<<NoiseLine>>, 6),
     Text(<<NoiseLine>>, 40),
     Text(<<NoiseLine, TempLine, RxLine, TxLine, VoltLine, BiasLine, DiagLine>>, 240),
     Text(<<Line("temperature", TRUE, ":", <<"6", "1", ".", "0">>, <<"c">>),
            Line("rx optical power", FALSE, ":", <<"-", "2", "0", ".", "1">>, <<"d", "B", "m">>),
            Line("tx output power", FALSE, "=", <<"6", ".", "7">>, <<"d", "B", "m">>),
            Line("supply voltage", FALSE, ":", <<"-", "3", ".", "3">>, <<"V">>)>>, 130),
     Text(<<Line("temperature", FALSE, ":", <<"5", ".", "3", ".", "2">>, <<"C">>),
            Line("rx optical power", FALSE, ":", <<"-">>, <<"d", "B", "m">>),
            Line("tx bias current", FALSE, ":", <<"1", "8", ".", "3">>, <<"A">>),
            Line("diagnostic monitoring type", FALSE, ":", <<"6", "8">>, <<>>)>>, 120)}

PonLine(upper, value) == Line("ponlink-status", upper, ":", value, <<>>)

\* replies to `onu show ponlink`; a label without a token stands on the last
\* line, where the \s* after the colon has no later line to run into
PonTexts ==
    {EmptyText,
     Text(<<NoiseLine>>, 6),
     Text(<<NoiseLine>>, 40),
     Text(<<NoiseLine, PonLine(FALSE, ConnectOK)>>, 60),
     Text(<<PonLine(FALSE, ConnectFail)>>, 28),
     Text(<<PonLine(TRUE, <<"C", "O", "N", "N", "E", "C", "T", "-", "O", "K">>)>>, 26),
     Text(<<PonLine(FALSE, <<"c", "o", "n", "n", "e", "c", "t", "-", "O", "K", "!">>)>>, 27),
     Text(<<Line("link status", FALSE, ":", Up, <<>>),
            PonLine(FALSE, <<>>)>>, 40),
     Text(<<Line("connection", FALSE, ":", Down, <<>>),
            Line("pon status", FALSE, ":", Up, <<>>)>>, 40),
     Text(<<Line("link status", FALSE, ":", <<"o", "k">>, <<>>)>>, 16)}

\* ---- _parse_fec_statistics -----------------------------------------------

\* (\d+): the digits the value starts with
RECURSIVE DigitPrefix(_)
DigitPrefix(value) ==
    IF value = <<>> \/ ~IsDigit(value[1]) THEN <<>>
    ELSE <<value[1]>> \o DigitPrefix(SubSeq(value, 2, Len(value)))

\* <label>\s*:\s*(\d+) with IGNORECASE
FecLineMatches(l, label) ==
    l.label = label /\ l.sep = ":" /\ DigitPrefix(l.value) # <<>>

FecFound(text, label) ==
    IF \E i \in 1..Len(text.lines) : FecLineMatches(text.lines[i], label)
    THEN CHOOSE i \in 1..Len(text.lines) :
            /\ FecLineMatches(text.lines[i], label)
            /\ \A j \in 1..(i - 1) : ~FecLineMatches(text.lines[j], label)
    ELSE 0

\* the four blocks of lines 466-519, from block i on: int(group) is set
RECURSIVE ParseFecCounters(_, _, _)
ParseFecCounters(st, text, i) ==
    IF i > Len(FecPatterns) THEN st
    ELSE ParseFecCounters(
             IF FecFound(text, FecPatterns[i][1]) = 0 THEN st
             ELSE Put(st, FecPatterns[i][2],
                      DigitsVal(DigitPrefix(
                          text.lines[FecFound(text, FecPatterns[i][1])].value))),
             text, i + 1)

\* _parse_fec_statistics (lines 459-519) on the reply to `onu show pon counter`
ParseFecStatistics(st, fec_output) ==
    IF fec_output.len < 10 THEN st
    ELSE ParseFecCounters(st, fec_output, 1)

FecLine(label, value) == Line(label, FALSE, ":", value, <<>>)

\* replies to `onu show pon counter`
FecTexts ==
    {EmptyText,
     Text(<<NoiseLine>>, 40),
     Text(<<FecLine("corrected byte(8-byte)", <<"1", "2", "0", "0">>),
            FecLine("corrected code words(8-byte)", <<"1", "5">>),
            FecLine("uncorrectable code words(8-byte)", <<"0">>),
            FecLine("total code words(8-byte)", <<"9", "0", "0", "0">>)>>, 160),
     Text(<<FecLine("corrected byte(8-byte)", <<"1", "3", "0", "0">>),
            FecLine("corrected code words(8-byte)", <<"1", "6">>),
            FecLine("uncorrectable code words(8-byte)", <<"2">>),
            FecLine("total code words(8-byte)", <<"9", "5", "0", "0">>)>>, 160),
     Text(<<FecLine("corrected byte(8-byte)", <<"7">>),
            Line("corrected code words(8-byte)", TRUE, ":", <<"3", ".", "5">>, <<>>),
            FecLine("uncorrectable code words(8-byte)", <<"-", "1">>),
            Line("total code words(8-byte)", FALSE, "=", <<"4">>, <<>>)>>, 150)}

\* ---- _parse_serdes_state -------------------------------------------------

\* [\w\s]+ : letters, digits, underscores and blanks, at least one
IsWordOrSpace(c) == c \notin {"(", ")", "-", "!", ".", ":", "|", "/", "+"}
WordsAndSpaces(value) ==
    value # <<>> /\ \A i \in 1..Len(value) : IsWordOrSpace(value[i])

\* Serdes\s*state\s*\|\s*([\w\s]+)\((0x[0-9a-fA-F]+)\) with IGNORECASE: a
\* line `Serdes state | <name>(<code>)`, the name in `value`, the code in `unit`
SerdesLineMatches(l) ==
    /\ l.label = "serdes state"
    /\ l.sep = "|"
    /\ WordsAndSpaces(l.value)
    /\ ClassOk("hex0x", TRUE, l.unit)

SerdesFound(text) ==
    IF \E i \in 1..Len(text.lines) : SerdesLineMatches(text.lines[i])
    THEN CHOOSE i \in 1..Len(text.lines) :
            /\ SerdesLineMatches(text.lines[i])
            /\ \A j \in 1..(i - 1) : ~SerdesLineMatches(text.lines[j])
    ELSE 0

\* str.strip()
Strip(chars) == RStrip(LStrip(chars, {" "}), {" "})

\* the loop of lines 590-593: every state's child is set, to 1 when the
\* state equals the stripped text and to 0 otherwise
RECURSIVE SetTextStates(_, _, _)
SetTextStates(st, serdes_text, i) ==
    IF i > Len(possible_states) THEN st
    ELSE SetTextStates(Put(st, SerdesTextGauges[i],
                           IF possible_states[i] = serdes_text THEN 1 ELSE 0),
                       serdes_text, i + 1)

\* _parse_serdes_state (lines 576-601) on the reply to `onu show pon serdes`
ParseSerdesState(st, serdes_output) ==
    IF SerdesFound(serdes_output) = 0 THEN st
    ELSE SetTextStates(
             Put(st, "ont_pon_serdes_state",
                 IntOfHex(serdes_output.lines[SerdesFound(serdes_output)].unit).val),
             Strip(serdes_output.lines[SerdesFound(serdes_output)].value), 1)

SerdesLine(name, code) == Line("serdes state", FALSE, "|", name, code)

Code3e == <<"0", "x", "3", "e">>

\* replies to `onu show pon serdes`
SerdesTexts ==
    {EmptyText,
     Text(<<NoiseLine>>, 40),
     Text(<<SerdesLine(possible_states[1], Code3e)>>, 31),
     Text(<<NoiseLine, SerdesLine(<<"G", "o", "o", "d", " ">>, <<"0", "x", "2", "A">>)>>, 60),
     Text(<<SerdesLine(possible_states[3], <<"0", "x", "1", "0">>)>>, 26),
     Text(<<SerdesLine(possible_states[5], <<"0", "x", "0", "0">>)>>, 28),
     Text(<<SerdesLine(possible_states[6], <<"0", "x", "f", "f">>)>>, 29),
     Text(<<SerdesLine(<<"v", "e", "r", "y", " ", "g", "o", "o", "d">>, Code3e)>>, 31),
     Text(<<SerdesLine(<<"E", "x", "c", "e", "l", "l", "e", "n", "t">>, Code3e)>>, 31),
     Text(<<SerdesLine(<<"N", "o", "t", "-", "r", "e", "a", "d", "y">>, Code3e)>>, 31),
     Text(<<SerdesLine(possible_states[2], <<"3", "e">>)>>, 24)}

\* ---- one parse as a step -------------------------------------------------

NoParseObs ==
    [op |-> "none", text |-> EmptyText,
     before |-> [g \in ShellGauges |-> Unwritten], written |-> {},
     repeat |-> FALSE]

InitShell ==
    shell = [m |-> [g \in ShellGauges |-> Unwritten], calls |-> 0, obs |-> NoParseObs]

ParseStep(op, text, st) ==
    [m |-> st.m, calls |-> shell.calls + 1,
     obs |-> [op |-> op, text |-> text, before |-> shell.m, written |-> st.written,
              repeat |-> shell.obs.op = op /\ shell.obs.text = text]]

ShellFrame ==
    UNCHANGED <<api_password, json_error, errors, req, gauges, power, sess,
                open_children, started, sched, ros, ont, vend>>

DoProcessOntSfpMetrics ==
    /\ shell.calls < MaxParses
    /\ \E text \in SfpTexts :
        shell' = ParseStep("sfp", text,
                         ProcessOntSfpMetrics([m |-> shell.m, written |-> {}], text))
    /\ ShellFrame

DoParsePonStatus ==
    /\ shell.calls < MaxParses
    /\ \E text \in PonTexts :
        shell' = ParseStep("pon", text,
                         ParsePonStatus([m |-> shell.m, written |-> {}], text))
    /\ ShellFrame

DoParseFecStatistics ==
    /\ shell.calls < MaxParses
    /\ \E text \in FecTexts :
        shell' = ParseStep("fec", text,
                         ParseFecStatistics([m |-> shell.m, written |-> {}], text))
    /\ ShellFrame

DoParseSerdesState ==
    /\ shell.calls < MaxParses
    /\ \E text \in SerdesTexts :
        shell' = ParseStep("serdes", text,
                         ParseSerdesState([m |-> shell.m, written |-> {}], text))
    /\ ShellFrame

DoGetPonLinkStatus ==
    /\ shell.calls < MaxParses
    /\ \E text \in PonTexts :
        shell' = ParseStep("monitor", text,
                         GetPonLinkStatus([m |-> shell.m, written |-> {}], text))
    /\ ShellFrame

\* ======================================================================
\*  monitor.compare_sfp_metrics: the API readings against the readings
\*  scraped from the module
\* ======================================================================

\* the patterns of lines 108-130, case-sensitive; of a power line
\* `<label>: <x>mW (<y>dBm)` the reply model keeps the dBm figure as the value
DirectPattern(key) ==
    CASE key = "temperature" -> Pattern("temperature", ":", FALSE, "ufloat", <<"C">>)
      [] key = "voltage" -> Pattern("supply voltage", ":", FALSE, "ufloat", <<"V">>)
      [] key = "tx_bias" -> Pattern("tx bias current", ":", FALSE, "ufloat", <<"m", "A">>)
      [] key = "tx_power" ->
            Pattern("tx output power", ":", FALSE, "float", <<"d", "B", "m">>)
      [] OTHER ->
            Pattern("rx optical power", ":", FALSE, "float", <<"d", "B", "m">>)

\* the unit characters rstrip removes from the API text (lines 135-143)
ApiUnit(key) ==
    CASE key = "temperature" -> {"C"}
      [] key = "voltage" -> {"V"}
      [] key = "tx_bias" -> {"m", "A"}
      [] OTHER -> {"d", "B", "m"}

DirectKeys(direct_sfp_output) ==
    {k \in CompareKeys : Found(direct_sfp_output, DirectPattern(k)) # 0}

\* float(match.group(1))
DirectValue(direct_sfp_output, key) ==
    FloatOfStr(Group(direct_sfp_output, DirectPattern(key)))

ApiKeys(api) == {k \in CompareKeys : api[k].type # "absent"}

\* float(api_data[...].rstrip(unit)): rstrip exists on a string only
ApiValue(api, key) ==
    IF api[key].type = "str" THEN FloatOfStr(RStrip(api[key].chars, ApiUnit(key)))
    ELSE Err

\* a conversion of lines 108-143 raises; the except clause of lines 169-171
\* logs it and returns (None, None)
CompareRaises(api, direct_sfp_output) ==
    \/ \E k \in DirectKeys(direct_sfp_output) : ~DirectValue(direct_sfp_output, k).ok
    \/ \E k \in ApiKeys(api) : ~ApiValue(api, k).ok

Abs(x) == IF x < 0 THEN -x ELSE x

\* lines 148-151: 1.0, and 2.0 for the two optical powers
Threshold(key) == IF key \in {"rx_power", "tx_power"} THEN 2 * Scale ELSE 1 * Scale

\* the keys whose difference is warned about (lines 146-156)
Warned(api, direct_sfp_output) ==
    {k \in DirectKeys(direct_sfp_output) \cap ApiKeys(api) :
        Abs(DirectValue(direct_sfp_output, k).val - ApiValue(api, k).val) > Threshold(k)}

\* api_data.get('running', False) under `not`
RunningTruthy(running) ==
    CASE running.type = "str" -> running.chars # <<>>
      [] running.type \in {"bool", "num"} -> running.num # 0
      [] OTHER -> FALSE

\* compare_sfp_metrics (lines 97-171): the stale flag of a power whose
\* difference is warned about is set to 1 when the link is not up
CompareSfpMetrics(g, running, api, direct_sfp_output) ==
    IF CompareRaises(api, direct_sfp_output) THEN g
    ELSE [g EXCEPT !.sfp_data_stale =
            [mt \in MetricTypes |->
                IF ~RunningTruthy(running) /\ mt \in Warned(api, direct_sfp_output)
                THEN 1 ELSE g.sfp_data_stale[mt]]]

DirectLine(label, value, unit) == Line(label, FALSE, ":", value, unit)

\* what get_direct_sfp_metrics returned
DirectOutputs ==
    {Text(<<DirectLine("temperature", <<"5", "3", ".", "2">>, <<"C">>),
            DirectLine("tx output power", <<"-", "4", ".", "0">>, <<"d", "B", "m">>),
            DirectLine("rx optical power", <<"-", "7", ".", "0">>, <<"d", "B", "m">>)>>, 120),
     Text(<<DirectLine("temperature", <<"5", "4", ".", "3">>, <<"C">>),
            DirectLine("supply voltage", <<"3", ".", "3">>, <<"V">>),
            DirectLine("tx output power", <<"-", "2", ".", "9">>, <<"d", "B", "m">>),
            DirectLine("rx optical power", <<"-", "1", "8", ".", "6">>, <<"d", "B", "m">>)>>, 160),
     Text(<<DirectLine("temperature", <<"5", ".", "3", ".", "2">>, <<"C">>),
            DirectLine("rx optical power", <<"-", "7", ".", "0">>, <<"d", "B", "m">>)>>, 80),
     Text(<<NoiseLine>>, 40)}

ApiData(temperature, voltage, tx, rx) ==
    [k \in CompareKeys |->
        CASE k = "temperature" -> temperature
          [] k = "voltage" -> voltage
          [] k = "tx_power" -> tx
          [] k = "rx_power" -> rx
          [] OTHER -> Absent]

\* the monitor object of the API, as compare_sfp_metrics reads it
ApiDatas ==
    {ApiData(StrVal(<<"5", "3", ".", "2", "C">>), Absent,
             StrVal(<<"-", "5", ".", "0", "d", "B", "m">>),
             StrVal(<<"-", "5", ".", "0", "d", "B", "m">>)),
     ApiData(StrVal(<<"5", "3", "C">>), StrVal(<<"3", ".", "3", "V">>),
             StrVal(<<"-", "5", ".", "0">>), Absent),
     ApiData(Absent, Absent, NumVal(21),
             StrVal(<<"-", "5", ".", "0", "d", "B", "m">>))}

Runnings == {Absent, StrVal(TrueStr), BoolVal(FALSE)}

\* monitor.py lines 1021-1037: the comparison is made for a reading of the
\* SFP interface that was just published as stale
DoCompareSfpMetrics ==
    /\ power.by = "monitor"
    /\ power.done
    /\ "rx_power" \in gauges.written
    /\ gauges.sfp_data_stale["rx_power"] = 1
    /\ \E running \in Runnings, api \in ApiDatas, direct \in DirectOutputs :
        /\ gauges' = CompareSfpMetrics(gauges, running, api, direct)
        /\ power' = [PowerCall("compare", RunningTruthy(running), Absent, Absent,
                                0, gauges) EXCEPT
                        !.done = FALSE,
                        !.cmp = [done |-> TRUE,
                                 link_is_up |-> RunningTruthy(running),
                                 raised |-> CompareRaises(api, direct),
                                 warned |-> IF CompareRaises(api, direct) THEN {}
                                            ELSE Warned(api, direct),
                                 api |-> api, direct |-> direct,
                                 stale_before |-> gauges.sfp_data_stale,
                                 power_before |-> gauges.sfp_power]]
    /\ UNCHANGED <<api_password, json_error, errors, req, sess, open_children,
                   started, sched, ros, ont, shell, vend>>

\* ======================================================================
\*  OLT vendor lookup: ZaramONTCollector._extract_olt_vendor_id and
\*  _get_vendor_name, monitor.parse_olt_vendor_id and get_vendor_name
\* ======================================================================

\* config.olt_vendor_map (config.py lines 103-154): key and name
olt_vendor_map ==
    {<<<<"0", "x", "4", "1", "4", "c", "4", "3", "4", "c">>, "Alcatel-Lucent">>,
     <<<<"0", "x", "4", "1", "4", "c", "4", "c", "4", "7">>, "Allgon">>,
     <<<<"0", "x", "4", "1", "5", "6", "4", "d", "4", "7">>, "AVM">>,
     <<<<"0", "x", "4", "1", "5", "3", "4", "b", "5", "9">>, "Askey">>,
     <<<<"0", "x", "4", "3", "4", "4", "4", "b", "5", "4">>, "Comkey">>,
     <<<<"0", "x", "4", "3", "4", "9", "4", "7", "4", "7">>, "CIG">>,
     <<<<"0", "x", "4", "3", "5", "8", "4", "e", "4", "b">>, "Cisco">>,
     <<<<"0", "x", "4", "4", "4", "4", "4", "b", "5", "4">>, "Dasan">>,
     <<<<"0", "x", "4", "4", "4", "c", "4", "e", "4", "b">>, "D-Link">>,
     <<<<"0", "x", "4", "4", "5", "3", "4", "e", "5", "7">>, "Dasan">>,
     <<<<"0", "x", "4", "5", "4", "c", "5", "4", "5", "8">>, "Eltex">>,
     <<<<"0", "x", "4", "6", "4", "8", "5", "4", "5", "4">>, "FiberHome">>,
     <<<<"0", "x", "4", "7", "4", "d", "5", "4", "4", "b">>, "Gemtek">>,
     <<<<"0", "x", "4", "7", "4", "e", "5", "8", "5", "3">>, "Genexis">>,
     <<<<"0", "x", "4", "7", "5", "0", "4", "e", "4", "3">>, "GPON">>,
     <<<<"0", "x", "4", "7", "5", "0", "4", "f", "4", "e">>, "GPON">>,
     <<<<"0", "x", "4", "7", "5", "4", "4", "8", "4", "7">>, "GTHG">>,
     <<<<"0", "x", "4", "8", "4", "1", "4", "c", "4", "e">>, "Halon">>,
     <<<<"0", "x", "4", "8", "4", "2", "4", "d", "5", "4">>, "HBM">>,
     <<<<"0", "x", "4", "8", "5", "5", "4", "d", "4", "1">>, "Huawei">>,
     <<<<"0", "x", "4", "8", "5", "7", "5", "4", "4", "3">>, "Huawei">>,
     <<<<"0", "x", "4", "9", "4", "3", "5", "4", "5", "2">>, "iControl">>,
     <<<<"0", "x", "4", "9", "5", "3", "4", "b", "5", "4">>, "iSKT">>,
     <<<<"0", "x", "4", "b", "4", "1", "4", "f", "4", "e">>, "Kaon">>,
     <<<<"0", "x", "4", "c", "4", "5", "4", "f", "5", "8">>, "Leox">>,
     <<<<"0", "x", "4", "c", "5", "1", "4", "4", "4", "5">>, "LQDE">>,
     <<<<"0", "x", "4", "d", "5", "3", "5", "4", "4", "3">>, "MSTC">>,
     <<<<"0", "x", "4", "e", "4", "f", "4", "b", "4", "7">>, "Nokia">>,
     <<<<"0", "x", "4", "e", "4", "f", "4", "b", "5", "7">>, "Nokia">>,
     <<<<"0", "x", "5", "0", "5", "4", "4", "9", "4", "e">>, "PTIN">>,
     <<<<"0", "x", "5", "2", "5", "4", "4", "b", "4", "7">>, "Realtek">>,
     <<<<"0", "x", "5", "3", "4", "3", "4", "f", "4", "d">>, "Sercomm">>,
     <<<<"0", "x", "5", "3", "4", "b", "5", "9", "5", "7">>, "Skyworth">>,
     <<<<"0", "x", "5", "3", "4", "d", "4", "2", "5", "3">>, "SMBS">>,
     <<<<"0", "x", "5", "3", "5", "0", "4", "7", "4", "1">>, "SPGA">>,
     <<<<"0", "x", "5", "4", "4", "d", "4", "2", "4", "2">>, "Thomson">>,
     <<<<"0", "x", "5", "4", "5", "0", "4", "c", "4", "7">>, "TP-Link">>,
     <<<<"0", "x", "5", "5", "4", "2", "4", "e", "5", "4">>, "Ubiquiti">>,
     <<<<"0", "x", "5", "5", "4", "7", "5", "2", "4", "4">>, "UGRD">>,
     <<<<"0", "x", "5", "9", "4", "8", "5", "4", "4", "3">>, "YHTC">>,
     <<<<"0", "x", "5", "a", "4", "e", "5", "4", "5", "3">>, "Zioncom">>,
     <<<<"0", "x", "5", "a", "5", "2", "4", "d", "5", "4">>, "ZRMT">>,
     <<<<"0", "x", "5", "a", "5", "4", "4", "5", "4", "7">>, "ZTE">>,
     <<<<"0", "x", "5", "a", "5", "9", "5", "7", "4", "e">>, "ZYWNE">>,
     <<<<"0", "x", "5", "a", "5", "9", "5", "8", "4", "5">>, "ZYXEL">>,
     <<<<"0", "x", "5", "a", "5", "4">>, "ZTE">>,
     <<<<"0", "x", "5", "a", "5", "3">>, "ZTE">>,
     <<<<"0", "x", "5", "a", "5", "8">>, "ZTE">>,
     <<<<"0", "x", "5", "a", "4", "9">>, "Zaram">>,
     <<<<"0", "x", "4", "8", "5", "3">>, "Huawei">>}

\* monitor.OLT_VENDOR_MAP (monitor.py lines 384-415)
OLT_VENDOR_MAP ==
    {<<<<"0", "x", "5", "a", "5", "4">>, "ZTE">>,
     <<<<"0", "x", "5", "a", "5", "3">>, "ZTE">>,
     <<<<"0", "x", "5", "a", "5", "8">>, "ZTE">>,
     <<<<"0", "x", "5", "a", "4", "9">>, "Zaram">>,
     <<<<"0", "x", "4", "8", "5", "3">>, "Huawei">>,
     <<<<"0", "x", "4", "8", "5", "5">>, "Huawei">>,
     <<<<"0", "x", "5", "4", "4", "8">>, "FiberHome">>,
     <<<<"0", "x", "5", "4", "4", "3">>, "FiberHome">>,
     <<<<"0", "x", "5", "4", "4", "e">>, "Dasan">>,
     <<<<"0", "x", "4", "3", "4", "8">>, "CIG">>,
     <<<<"0", "x", "4", "6", "4", "3">>, "Ubiquiti">>,
     <<<<"0", "x", "4", "e", "4", "f">>, "Nokia">>,
     <<<<"0", "x", "4", "1", "4", "c">>, "Alcatel">>,
     <<<<"0", "x", "4", "1", "4", "c", "4", "3", "4", "c">>, "Alcatel">>,
     <<<<"0", "x", "5", "3", "4", "3">>, "Sercomm">>,
     <<<<"0", "x", "4", "2", "4", "3">>, "Broadcom">>,
     <<<<"0", "x", "4", "3", "4", "3">>, "Calix">>,
     <<<<"0", "x", "4", "2", "5", "3">>, "BSCOM">>,
     <<<<"0", "x", "5", "4", "4", "4">>, "V-SOL">>,
     <<<<"0", "x", "5", "3", "5", "5">>, "Sumitomo">>,
     <<<<"0", "x", "4", "f", "4", "e">>, "ODI">>,
     <<<<"0", "x", "4", "3", "5", "3">>, "Commscope">>,
     <<<<"0", "x", "4", "3", "4", "9">>, "Cisco">>,
     <<<<"0", "x", "4", "d", "5", "4">>, "Motorola">>,
     <<<<"0", "x", "4", "4", "5", "3">>, "D-Link">>,
     <<<<"0", "x", "4", "7", "4", "9">>, "Genexis">>,
     <<<<"0", "x", "4", "2", "4", "8">>, "BT">>,
     <<<<"0", "x", "4", "9", "5", "3">>, "Iskratel">>,
     <<<<"0", "x", "4", "e", "4", "5">>, "NEC">>}

\* the legacy table inside monitor.get_vendor_name (lines 424-430)
legacy_vendor_map ==
    {<<<<"5", "a", "5", "4", "4", "5">>, "ZTE">>,
     <<<<"4", "6", "5", "3", "5", "4">>, "FiberHome">>,
     <<<<"4", "e", "4", "f", "4", "b", "4", "9">>, "Nokia">>,
     <<<<"4", "9", "5", "3", "4", "b", "4", "d">>, "Iskratel">>,
     <<<<"4", "e", "4", "5", "4", "3">>, "NEC">>}

\* dict.get(key, default)
Get(table, key, default) ==
    IF \E p \in table : p[1] = key
    THEN (CHOOSE p \in table : p[1] = key)[2]
    ELSE default

Prefix0x == <<"0", "x">>

\* format(n, 'x'): the hexadecimal digits of n, lower case
RECURSIVE HexChars(_)
HexChars(n) ==
    IF n < 16 THEN <<HexDigits[n + 1]>>
    ELSE HexChars(n \div 16) \o <<HexDigits[(n % 16) + 1]>>

\* the 08 of the format specification: zeros on the left up to 8 characters
RECURSIVE ZeroPad8(_)
ZeroPad8(s) == IF Len(s) >= 8 THEN s ELSE ZeroPad8(<<"0">> \o s)

\* _extract_olt_vendor_id (lines 698-709): int(group, 16) of the digits the
\* pattern captured; None when the conversion fails
ExtractOltVendorId(group) == IntOfHex(group)

\* _get_vendor_name (lines 711-715): f"0x{vendor_id:08x}", then the table
HexId(vendor_id) == Prefix0x \o ZeroPad8(HexChars(vendor_id))

GetVendorName(vendor_id) == Get(olt_vendor_map, HexId(vendor_id), "Unknown")

\* the vendor part of _process_olt_info (lines 675-681)
ProcessOltInfo(group) ==
    IF ExtractOltVendorId(group).ok /\ ExtractOltVendorId(group).val # 0
    THEN [path |-> "collector", scraped |-> group, looked_up |-> TRUE,
          key |-> HexId(ExtractOltVendorId(group).val),
          name |-> GetVendorName(ExtractOltVendorId(group).val),
          value |-> ExtractOltVendorId(group).val, raised |-> FALSE]
    ELSE [path |-> "collector", scraped |-> group, looked_up |-> FALSE,
          key |-> <<>>, name |-> "", value |-> 0, raised |-> FALSE]

\* chars.startswith('0x')
StartsWith0x(s) == Len(s) >= 2 /\ SubSeq(s, 1, 2) = Prefix0x

\* monitor.get_vendor_name (lines 417-431)
MonitorGetVendorName(vendor_id) ==
    IF \E p \in OLT_VENDOR_MAP : p[1] = Lower(vendor_id)
    THEN Get(OLT_VENDOR_MAP, Lower(vendor_id), "Unknown")
    ELSE Get(legacy_vendor_map, Lower(vendor_id), "Unknown")

\* lines 449-452 of monitor.parse_olt_vendor_id: lower-case the group and
\* prepend 0x when it is not there
PrefixedId(group) ==
    IF StartsWith0x(Lower(group)) THEN Lower(group) ELSE Prefix0x \o Lower(group)

\* monitor.parse_olt_vendor_id (lines 433-467) once a pattern captured `group`
ParseOltVendorId(group) ==
    [path |-> "monitor", scraped |-> group, looked_up |-> TRUE,
     key |-> PrefixedId(group), name |-> MonitorGetVendorName(PrefixedId(group)),
     value |-> IntOfHex(PrefixedId(group)).val, raised |-> FALSE]

\* the digits a device can report: every key of the three tables without
\* its prefix, upper-case spellings, and ids no table holds
ScrapedIds ==
    {SubSeq(p[1], 3, Len(p[1])) : p \in olt_vendor_map \cup OLT_VENDOR_MAP}
    \cup {p[1] : p \in legacy_vendor_map}
    \cup {<<"5", "A", "4", "9">>, <<"5", "a", "4", "9">>,
          <<"0", "0", "0", "0", "5", "a", "4", "9">>,
          <<"f", "f", "f", "f">>, <<"1", "2", "3", "4">>, <<"0">>,
          <<"5", "A", "5", "2", "4", "D", "5", "4">>}

NoLookup ==
    [path |-> "none", scraped |-> <<>>, looked_up |-> FALSE, key |-> <<>>,
     name |-> "", value |-> 0, raised |-> FALSE]

InitVend == vend = NoLookup

VendFrame ==
    UNCHANGED <<api_password, json_error, errors, req, gauges, power, sess,
                open_children, started, sched, ros, ont, shell>>

DoProcessOltInfo ==
    /\ vend.path = "none"
    /\ \E group \in ScrapedIds : vend' = ProcessOltInfo(group)
    /\ VendFrame

DoParseOltVendorId ==
    /\ vend.path = "none"
    /\ \E group \in ScrapedIds : vend' = ParseOltVendorId(group)
    /\ VendFrame

\* ======================================================================
\*  Specifications
\* ======================================================================

InitOnt == ont = NoCycle

Init ==
    /\ InitHttp /\ InitPower /\ InitSession /\ InitSched
    /\ InitRos /\ InitOnt /\ InitShell /\ InitVend

\* the build and the first secret matter to the HTTP client only
InitQuiet ==
    /\ Init
    /\ api_password = "s1"
    /\ json_error = "JSONDecodeError"
    /\ ros.monitored = DefaultMonitored

NextHttp == DoMakeRequest

SpecHttp == Init /\ [][NextHttp]_vars

NextPower == DoProcessOpticalPower \/ DoMonitorOpticalPower \/ DoCompareSfpMetrics

SpecPower == InitQuiet /\ [][NextPower]_vars

NextSession == StartSession \/ SessionStep

SpecSession == InitQuiet /\ [][NextSession]_vars

NextCollectorSession == StartCollectorSession \/ SessionStep

\* one session of any of the three collect operations; every expect returns
\* within its timeout (match, timeout or end of stream), so a session that
\* can take its next step takes it
SpecSessionFair ==
    InitQuiet /\ [][NextCollectorSession]_vars /\ WF_vars(SessionStep)

Next == MainStep \/ SessionStep

NextRouterOS == DoCollectAllMetrics \/ DoCollectFollowing

\* the RouterOS collector under every configured interface list
InitRouterOS == Init /\ api_password = "s1" /\ json_error = "JSONDecodeError"

SpecRouterOS == InitRouterOS /\ [][NextRouterOS]_vars

NextShell ==
    \/ DoProcessOntSfpMetrics
    \/ DoParsePonStatus
    \/ DoGetPonLinkStatus
    \/ DoParseSerdesState
    \/ DoParseFecStatistics

\* the parsers of the device's replies, one reply at a time
SpecShell == InitQuiet /\ [][NextShell]_vars

NextVendor == DoProcessOltInfo \/ DoParseOltVendorId

\* one vendor lookup, through the collector or through monitor.py
SpecVendor == InitQuiet /\ [][NextVendor]_vars

Spec == InitQuiet /\ [][Next]_vars

\* ----------------------------------------------------------------------
\*  Properties of _make_request
\* ----------------------------------------------------------------------

IsSend(c) == c.op = "send"
IsResolve(c) == c.op = "resolve"

ReqSends == SelectSeq(req.calls, IsSend)

\* index in req.calls of the first send, 0 when nothing was sent
FirstSendAt ==
    IF ReqSends = <<>> THEN 0
    ELSE CHOOSE i \in 1..Len(req.calls) :
            /\ IsSend(req.calls[i])
            /\ \A j \in 1..(i - 1) : ~IsSend(req.calls[j])

\* credential resolutions that happened after the first send
ResolvesAfterFirstSend ==
    Cardinality({i \in 1..Len(req.calls) :
                    i > FirstSendAt /\ IsResolve(req.calls[i])})

SameRequest(a, b) ==
    /\ a.endpoint = b.endpoint
    /\ a.verb = b.verb
    /\ a.json = b.json
    /\ a.params = b.params

FirstResponded == req.done /\ Len(ReqSends) >= 1
First401 == FirstResponded /\ req.env.r1.code = 401
RetryResponded == First401 /\ Len(ReqSends) = 2

IncTotal == req.inc["timeout"] + req.inc["request_error"] + req.inc["unexpected"]

\* C1 (as stated): a first response of 401 is followed by exactly one
\* credential re-resolution and exactly one re-send of the same request, and
\* a 200 on the retry returns the parsed body; a first response that is not
\* 401 is followed by no re-resolution and no second send.
C1_Original ==
    /\ First401 =>
        /\ ResolvesAfterFirstSend = 1
        /\ Len(ReqSends) = 2
        /\ SameRequest(ReqSends[1], ReqSends[2])
        /\ (req.env.r2.code = 200 /\ req.env.r2.body \in Bodies
                => req.ret = req.env.r2.body)
    /\ (FirstResponded /\ ~First401) =>
        /\ ResolvesAfterFirstSend = 0
        /\ Len(ReqSends) = 1

\* C1 (amended): a first response of 401 is followed by exactly one
\* credential re-resolution; when that re-resolution yields a secret the same
\* request (endpoint, method, body, query) is re-sent exactly once and a 200
\* with a JSON body on the retry returns the parsed body; when it yields
\* nothing, nothing is re-sent and None is returned.  A first response that
\* is not 401 is followed by no re-resolution and no second send.
C1_RetryOnceOn401 ==
    /\ First401 =>
        /\ ResolvesAfterFirstSend = 1
        /\ Truthy(req.env.fresh) =>
            /\ Len(ReqSends) = 2
            /\ SameRequest(ReqSends[1], ReqSends[2])
            /\ ReqSends[2].pw = req.env.fresh
            /\ (req.env.r2.code = 200 /\ req.env.r2.body \in Bodies
                    => req.ret = req.env.r2.body)
        /\ ~Truthy(req.env.fresh) =>
            /\ Len(ReqSends) = 1
            /\ req.ret = None
    /\ (FirstResponded /\ ~First401) =>
        /\ ResolvesAfterFirstSend = 0
        /\ Len(ReqSends) = 1

C1_Witness ==
    /\ First401
    /\ Len(ReqSends) = 2
    /\ ReqSends[1].verb = "GET"
    /\ ReqSends[1].params = "q1"
    /\ req.env.r2.code = 200
    /\ req.ret \in Bodies

\* C2: two consecutive 401 responses for one request yield None, no third
\* attempt, and exactly one increment of the routeros collection-error
\* counter for that request.
C2_Double401CountedOnce ==
    (RetryResponded /\ req.env.r2.code = 401) =>
        /\ req.ret = None
        /\ Len(ReqSends) = 2
        /\ IncTotal = 1

\* the request failed: a send raised, or the last response was not a 200
\* with a JSON body
ReqLast == IF Len(ReqSends) = 2 THEN req.env.r2 ELSE req.env.r1
ReqFailedStatus == FirstResponded /\ ReqLast.kind = "status" /\ ReqLast.code # 200
ReqFailedExc == FirstResponded /\ ReqLast.kind = "exc"

\* C3: every failed HTTP request increments collection_errors_total for
\* exactly one error kind exactly once and returns None: 'timeout' for a
\* timeout, 'request_error' for any other transport error, 'unexpected' for
\* a status that is neither 200 nor 401.
C3_FailureCountedOnce ==
    /\ (ReqFailedExc /\ ReqLast.body = "Timeout") =>
        /\ req.ret = None /\ IncTotal = 1 /\ req.inc["timeout"] = 1
    /\ (ReqFailedExc /\ ReqLast.body = "ConnectionError") =>
        /\ req.ret = None /\ IncTotal = 1 /\ req.inc["request_error"] = 1
    /\ (ReqFailedStatus /\ ReqLast.code # 401) =>
        /\ req.ret = None /\ IncTotal = 1 /\ req.inc["unexpected"] = 1

\* C4: _make_request never raises to its caller: whatever the outcome
\* (timeout, transport error, any status, a body that is not JSON, an
\* unsupported method, a credential re-resolution that returns nothing) it
\* returns the parsed body or None.
C4_NeverRaises ==
    req.done => (~req.raised /\ req.ret \in Bodies \cup {None})

C4_Witness ==
    /\ First401
    /\ req.env.fresh = None
    /\ Len(ReqSends) = 1
    /\ req.ret = None
    /\ req.inc["unexpected"] = 1

\* ----------------------------------------------------------------------
\*  Properties of _process_optical_power
\* ----------------------------------------------------------------------

PowerInput(mt) == IF mt = "rx_power" THEN power.rx ELSE power.tx
PowerProcessed(mt) ==
    power.done /\ PowerInput(mt).type # "absent" /\ ParsePower(PowerInput(mt)).ok

\* C10: for rx_power and tx_power alike, whenever a power reading is
\* processed the stale flag of that metric type is set to 1 if and only if
\* the link is down and the reading is strictly above the threshold of
\* -40 dBm, and to 0 otherwise, and the reading itself is published.
C10_StaleIffDownAndAboveFloor ==
    \A mt \in MetricTypes :
        PowerProcessed(mt) =>
            LET value == ParsePower(PowerInput(mt)).val
            IN /\ mt \in gauges.written
               /\ gauges.sfp_power[mt] = value
               /\ gauges.sfp_data_stale[mt] \in {0, 1}
               /\ (gauges.sfp_data_stale[mt] = 1
                     <=> (~power.link_is_up /\ value > -400))

C10_Witness ==
    /\ power.done /\ ~power.link_is_up
    /\ power.rx = StrVal(<<"-", "4", "0", ".", "0">>)
    /\ gauges.sfp_data_stale["rx_power"] = 0
    /\ gauges.sfp_power["rx_power"] = -400
    /\ power.tx = StrVal(<<"-", "5", ".", "0", "d", "B", "m">>)
    /\ gauges.sfp_data_stale["tx_power"] = 1
    /\ gauges.sfp_power["tx_power"] = -50

\* ----------------------------------------------------------------------
\*  Properties of the shell session
\* ----------------------------------------------------------------------

InCollectorLoop == sess.pc = "commands" /\ sess.variant \in CollectorVariants

\* the reply text a command loop captures from what preceded the prompt
Captured(variant, cmd, raw) ==
    IF variant = "regular" THEN CleanRegular(raw, cmd) ELSE CleanLines(raw, cmd)

\* the lines sent after the three handshake lines
SentAfterHandshake(s) == SubSeq(s.sent, 4, Len(s.sent))

\* what every pass through a command loop does, whatever its outcome: only
\* the entry of the command being run can change; a finished command has an
\* entry and the loop moves to the next command; when the loop ends every
\* command has an entry and was sent, in the order of the list
LoopStepCommon ==
    LET cmd == sess.commands[sess.idx]
    IN /\ sess'.cur.cmd = cmd
       /\ \A d \in CommandNames \ {cmd} : sess'.outputs[d] = sess.outputs[d]
       /\ sess'.cur.complete =>
            /\ sess'.outputs[cmd] # Missing
            /\ \/ sess'.pc = "commands" /\ sess'.idx = sess.idx + 1
               \/ sess'.pc = "teardown" /\ sess.idx = Len(sess.commands)
       /\ ~sess'.cur.complete =>
            /\ sess'.outputs[cmd] = Missing
            /\ sess'.pc = "commands" /\ sess'.idx = sess.idx
       /\ sess'.pc = "teardown" =>
            /\ Entries(sess'.outputs) = Range(sess.commands)
            /\ SentAfterHandshake(sess') = sess.commands

\* C5 (as stated): once the CommandLoop is reached the mapping gets exactly
\* one entry per command for every combination of outcomes; a command whose
\* prompt wait timed out (or whose execution raised) gets the empty string,
\* every later command is still sent, and a command that did not time out
\* keeps its captured reply text.
C5_Original ==
    [][InCollectorLoop =>
        /\ LoopStepCommon
        /\ sess'.cur.complete =>
            LET c == sess'.cur
            IN /\ (c.timed_out \/ c.last.kind = "exc")
                    => sess'.outputs[c.cmd] = <<>>
               /\ (~c.timed_out /\ c.last.kind = "reply")
                    => sess'.outputs[c.cmd] = Captured(sess.variant, c.cmd, c.last.raw)
      ]_vars

\* C5 (amended): once the CommandLoop is reached the mapping gets exactly
\* one entry per command for every combination of outcomes; a command whose
\* last prompt wait timed out (its only wait in the regular and vendor
\* loops, its third in the retrying loop) or whose execution raised gets the
\* empty string, every later command is still sent, and a command whose last
\* wait matched the prompt keeps the reply text captured by that wait.
C5_OneEntryPerCommand ==
    [][InCollectorLoop =>
        /\ LoopStepCommon
        /\ sess'.cur.complete =>
            LET c == sess'.cur
            IN /\ c.last.kind \in {"timeout", "exc"}
                    => sess'.outputs[c.cmd] = <<>>
               /\ c.last.kind = "reply"
                    => sess'.outputs[c.cmd] = Captured(sess.variant, c.cmd, c.last.raw)
               /\ (sess.variant # "all") => c.sends = 1
      ]_vars

C5_Witness ==
    /\ sess.variant = "regular"
    /\ sess.pc = "commands"
    /\ sess.idx = 4
    /\ sess.cur.cmd = RegularCommands[3]
    /\ sess.cur.last.kind = "timeout"
    /\ sess.outputs[RegularCommands[1]] = <<LongLine>>
    /\ sess.outputs[RegularCommands[2]] = <<LongLine>>
    /\ sess.outputs[RegularCommands[3]] = <<>>

CollectorDone == sess.pc = "done" /\ sess.variant \in CollectorVariants

\* C6: a session returns None exactly when it ended before the CommandLoop;
\* a handshake failure sends no command of the list, and a session that
\* reached the CommandLoop returns a mapping, never None.
C6_NoneIffBeforeLoop ==
    CollectorDone =>
        /\ (sess.ret.t = "None") <=> ~sess.reached_loop
        /\ sess.reached_loop => sess.ret.t = "map"
        /\ ~sess.reached_loop => Range(sess.sent) \cap Range(sess.commands) = {}

\* C7: when the outer transport shows a password prompt the session ends:
\* the process is closed, nothing is returned, and no line is ever sent to
\* the outer transport in answer to the prompt.
C7_NoAnswerToPasswordPrompt ==
    sess.pw_prompt =>
        /\ sess.pc = "done"
        /\ sess.closed
        /\ sess.child \notin open_children
        /\ sess.ret.t = "None"
        /\ sess.sent = <<>>

\* C8: when the wait for the outer prompt after 'exit' times out, the
\* process is force-closed and the session still returns the mapping
\* collected in the CommandLoop.
C8_TeardownTimeoutKeepsMapping ==
    (CollectorDone /\ sess.teardown = "TIMEOUT") =>
        /\ sess.closed
        /\ sess.child \notin open_children
        /\ sess.ret = RetMap(sess.outputs)

\* C9: across any sequence of fast and slow cycles at most one session
\* process is open at any time: no process is open outside a
\* connect-and-collect call, every return path has closed the process it
\* spawned, and the process a session talks to is the one it spawned itself.
C9_OneSessionAtATime ==
    /\ Cardinality(open_children) <= 1
    /\ sess.pc \in {"idle", "start", "done"} => open_children = {}
    /\ sess.pc \notin {"idle", "start", "done"} =>
        /\ open_children = {sess.child}
        /\ sess.child = started

C9_Witness ==
    /\ started = 3
    /\ sess.variant = "regular"
    /\ sess.pc = "teardown"
    /\ open_children = {3}
    /\ sched.pc = "collect_regular_wait"


\* ----------------------------------------------------------------------
\*  Properties of the RouterOS collection cycle
\* ----------------------------------------------------------------------

Labels(written) == {w[2] : w \in written}

\* C11: only configured interface names are processed: every
\* interface-labelled metric the router collector has written (link status,
\* counters, timestamps, SFP readings, SFP error counters, stale flags)
\* carries a name of config.monitored_interfaces, and an interface the router
\* returns that is not in that list causes no metric write.
C11_OnlyConfiguredInterfaces ==
    /\ Labels(ros.written) \subseteq Range(ros.monitored)
    /\ \A k \in RosMetrics, n \in InterfaceNames :
            ros.metrics[k][n].set => n \in Range(ros.monitored)

\* the descriptors the interfaces endpoint returned in the observed cycle
Descriptors ==
    IF ros.obs.done /\ ros.obs.interfaces.type = "list"
    THEN Range(ros.obs.interfaces.items) ELSE {}

\* the number a counter field reports, in tenths
ReportedNumbers ==
    {<<StrVal(Num12345), 123450>>, <<StrVal(<<"7">>), 70>>,
     <<StrVal(<<"0">>), 0>>, <<NumVal(20), 20>>, <<NumVal(70), 70>>,
     <<StrVal(<<"1", "2", "0">>), 1200>>, <<NumVal(0), 0>>}
ReportsNumber(v) == \E p \in ReportedNumbers : p[1] = v
ReportedNumber(v) == (CHOOSE p \in ReportedNumbers : p[1] = v)[2]

\* C12: for every monitored non-PPPoE descriptor the interfaces endpoint
\* returned, the link-status gauge is 1 when the running flag is the string
\* "true" or the boolean true and 0 otherwise, and every counter field that
\* is present is published with exactly the number it reports.
C12_LinkStatusAndCounters ==
    \A d \in Descriptors :
        (d.name \in Range(ros.monitored) /\ d.name # "pppoe-wan") =>
            /\ ros.metrics["interface_link_status"][d.name] =
                  Val(IF d.running \in {StrVal(TrueStr), BoolVal(TRUE)} THEN 1 ELSE 0)
            /\ <<"interface_link_status", d.name>> \in ros.obs.interface.written
            /\ \A i \in 1..Len(stats_mapping) :
                LET v == d.stats[stats_mapping[i][1]]
                    metric == stats_mapping[i][2]
                IN IF ReportsNumber(v)
                   THEN ros.metrics[metric][d.name] = Val(ReportedNumber(v))
                   ELSE <<metric, d.name>> \notin ros.obs.interface.written

C12_Witness ==
    /\ ros.obs.done
    /\ ros.monitored = DefaultMonitored
    /\ ros.obs.input.bodies[1] = "ifaces_scenario"
    /\ ros.metrics["interface_link_status"]["sfp-sfpplus1"] = Val(1)
    /\ ros.metrics["interface_rx_bytes"]["sfp-sfpplus1"] = Val(123450)
    /\ ros.metrics["interface_link_downs"]["sfp-sfpplus1"] = Val(30)
    /\ \A k \in RosMetrics : ~ros.metrics[k]["ether1"].set

\* the same-named entry of the PPPoE-client endpoint says "true"
PppoeClientRunning ==
    /\ ros.obs.pppoe.type = "list"
    /\ \E i \in 1..Len(ros.obs.pppoe.items) :
        /\ ros.obs.pppoe.items[i].name = "pppoe-wan"
        /\ ros.obs.pppoe.items[i].running \in
              {StrVal(<<"t", "r", "u", "e">>), StrVal(<<"T", "R", "U", "E">>)}

\* C19: the link status published for the PPPoE interface depends only on
\* the "running" field of the same-named entry of the PPPoE-client endpoint:
\* 1 exactly when it is the string "true" in any letter case, 0 when it is
\* anything else, when the entry is missing or when the endpoint returned
\* nothing; the generic descriptor's running flag and the status field do
\* not influence it.
C19_PppoeRunningIsAuthority ==
    \A d \in Descriptors :
        (d.name = "pppoe-wan" /\ d.name \in Range(ros.monitored)) =>
            /\ <<"interface_link_status", "pppoe-wan">> \in ros.obs.interface.written
            /\ ros.metrics["interface_link_status"]["pppoe-wan"] =
                  Val(IF PppoeClientRunning THEN 1 ELSE 0)

C19_Witness ==
    /\ ros.obs.done
    /\ ros.obs.input.bodies[1] = "ifaces_down"
    /\ ros.obs.input.bodies[2] = "pppoe_down"
    /\ ros.obs.input.answers = AllOk
    /\ \E d \in Descriptors : d.name = "pppoe-wan" /\ d.running = StrVal(TrueStr)
    /\ ros.metrics["interface_link_status"]["pppoe-wan"] = Val(0)



\* some pattern of the gauge's attribute matches the reply the observed parse
\* was given
AttributeMatched(g) ==
    LET text == shell.obs.text
    IN CASE shell.obs.op = "sfp" ->
              \E i \in 1..Len(SfpPatterns) :
                  SfpPatterns[i].metric = g /\ Found(text, SfpPatterns[i].pat) # 0
         [] shell.obs.op = "pon" ->
              /\ g = "ont_pon_link_status"
              /\ \/ \E pat \in {PonStrict, PonFlexible, PonFallback} : Found(text, pat) # 0
                 \/ \E i \in 1..Len(alt_patterns) : Found(text, alt_patterns[i]) # 0
         [] shell.obs.op = "monitor" ->
              g = "pon_link_status" /\ Found(text, MonitorPon) # 0
         [] shell.obs.op = "fec" ->
              /\ g \in FecGauges
              /\ shell.obs.text.len >= 10
              /\ \E i \in 1..Len(FecPatterns) :
                     FecPatterns[i][2] = g /\ FecFound(text, FecPatterns[i][1]) # 0
         [] shell.obs.op = "serdes" ->
              /\ g \in {"ont_pon_serdes_state"}
                       \cup {SerdesTextGauges[i] : i \in 1..Len(SerdesTextGauges)}
              /\ SerdesFound(text) # 0
         [] OTHER -> FALSE

\* C13: absence policy: when no pattern of an attribute matches the reply
\* (the empty reply of a timed-out command included), the parse writes no
\* metric for that attribute and its exposed value stays what it was before;
\* a missed pattern never writes 0 or another fabricated value.
C13_AbsenceWritesNothing ==
    \A g \in ShellGauges :
        ~AttributeMatched(g) =>
            /\ g \notin shell.obs.written
            /\ shell.m[g] = shell.obs.before[g]

\* the same policy for the collector's parsers alone
CollectorAbsenceWritesNothing ==
    shell.obs.op # "monitor" => C13_AbsenceWritesNothing


\* the table the observed lookup consults
VendorTable == IF vend.path = "collector" THEN olt_vendor_map ELSE OLT_VENDOR_MAP

\* C14: vendor lookup round trip: an id scraped without prefix ("5a49") is
\* normalized to its "0x"-prefixed form ("0x5a49") and resolves to the name
\* the vendor table holds for that key ("Zaram"); an id the table does not
\* hold resolves to "Unknown"; the lookup never raises.
C14_VendorRoundTrip ==
    (vend.path # "none" /\ ~StartsWith0x(vend.scraped)) =>
        /\ ~vend.raised
        /\ vend.looked_up
        /\ vend.key = Prefix0x \o Lower(vend.scraped)
        /\ vend.name = Get(VendorTable, Prefix0x \o Lower(vend.scraped), "Unknown")

\* the same round trip through monitor.parse_olt_vendor_id alone
MonitorVendorRoundTrip == vend.path = "monitor" => C14_VendorRoundTrip


\* seconds since the regular cadence last ran, read where the loop reads it
RegularElapsed == sched.now - sched.last_regular_collection

OltElapsed == sched.now - sched.last_olt_vendor_collection

\* C15: neither cadence delays the other: whatever the outcome of one
\* cadence's body, the other cadence's body starts at the first tick at which
\* its own elapsed time reaches its interval, so at the top of the loop a
\* cadence that has run before is never overdue.
C15_CadencesDoNotDelayEachOther ==
    sched.pc = "top" =>
        /\ sched.last_regular_collection # 0 =>
               RegularElapsed <= collection_interval_seconds
        /\ sched.last_olt_vendor_collection # 0 =>
               OltElapsed <= olt_vendor_interval


\* collect_olt_vendor_info() is about to let an exception escape into main()
CycleBodyRaises ==
    sched.pc = "collect_olt_wait" /\ sess.pc = "done" /\ sess.ret.t # "map"

\* the steps that end a cycle body of the iteration
CycleBodyCompletes ==
    \/ sched.pc = "check_olt"
    \/ sched.pc = "collect_olt_wait" /\ sess.pc = "done" /\ sess.ret.t = "map"

\* C16: an exception escaping a cycle body is caught and followed by the
\* long backoff sleep (60 s) before the timers are checked again, and the
\* loop goes on; an iteration whose bodies complete without exception is
\* followed by the short tick sleep (1 s) only.  The clock of the loop
\* advances in these two sleeps and nowhere else.
C16_BackoffAfterException ==
    [][/\ (sched'.pc = "error_sleep" /\ sched.pc # "error_sleep") => CycleBodyRaises
       /\ (CycleBodyRaises /\ sched' # sched) => sched'.pc = "error_sleep"
       /\ (sched'.pc = "sleep" /\ sched.pc # "sleep") => CycleBodyCompletes
       /\ (sched.pc = "error_sleep" /\ sched' # sched) =>
              (sched'.pc = "top" /\ sched'.now = sched.now + ErrorSleep)
       /\ (sched.pc = "sleep" /\ sched' # sched) =>
              (sched'.pc = "top" /\ sched'.now = sched.now + TickSleep)
       /\ sched.pc \notin {"sleep", "error_sleep"} => sched'.now = sched.now
      ]_vars

\* the loop is back at its top after one backoff sleep and one tick
C16_Witness ==
    sched.pc = "top" /\ sched.now = StartTime + ErrorSleep + TickSleep


\* C17: every failure inside a collection cycle is caught at the collector's
\* cycle boundary: the collector's collection_errors_total is incremented,
\* its collection_success is set to 0, and no exception leaves the collect
\* operation.
C17_FailureCountedAndFlagged ==
    (ont.cycle # "none" /\ ont.failed) =>
        /\ ~ont.raised
        /\ ont.counted
        /\ ont.collection_success = Val(0)

\* the part of it the regular cycle keeps: nothing escapes and the flag is 0
RegularFailureFlagged ==
    (ont.cycle = "regular" /\ ont.failed) =>
        (~ont.raised /\ ont.collection_success = Val(0))


\* a session of one of the collectors is running
CollectorSessionRunning ==
    sess.variant \in CollectorVariants /\ sess.pc \notin {"idle", "done"}

\* the collector's connect-and-collect call has returned and left no child open
SessionReturnedClosed == sess.pc = "done" /\ open_children = {}

\* C18: no operation blocks: when every expect returns within its timeout,
\* every shell session a collector starts eventually is closed and its
\* collect call returns, whatever the outcomes of its steps (all commands
\* timing out and all retries used included).
C18_SessionsTerminate == CollectorSessionRunning ~> SessionReturnedClosed

\* a collect call returned after its last command had timed out on every
\* one of its MaxRetries attempts
C18_Witness ==
    /\ sess.variant = "all" /\ sess.pc = "done" /\ open_children = {}
    /\ sess.cur.sends = MaxRetries /\ sess.cur.timed_out
    /\ sess.cur.last.kind = "timeout"


\* a request that got a 401 and whose re-resolution of the secret yielded
\* nothing: its last call is the lookup and it leaves no password behind
FailedReResolution(q) ==
    /\ Len(q.calls) >= 2
    /\ q.calls[Len(q.calls)].op = "resolve"
    /\ q.calls[Len(q.calls) - 1].op = "send"
    /\ ~Truthy(q.pw)

\* the two collect operations of the observed cycle
CollectOperations == {ros.obs.interface, ros.obs.sfp}

\* the request after request i of a collect operation starts with a lookup
NextRequestResolves(op, i) ==
    i < Len(op.requests) =>
        /\ op.requests[i + 1].calls # <<>>
        /\ op.requests[i + 1].calls[1].op = "resolve"

\* C20: a credential that cannot be resolved mid-run is not fatal: when the
\* re-resolution after a 401 yields nothing, the request returns None, the
\* collect operation it belongs to reports failure, nothing is raised, and
\* the next request attempts the resolution again.  (Construction is not
\* part of this specification: its Init is the state after a successful
\* __init__.)
C20_UnresolvedCredentialMidRun ==
    ros.obs.done =>
        \A op \in CollectOperations : \A i \in 1..Len(op.requests) :
            FailedReResolution(op.requests[i]) =>
                /\ op.requests[i].ret = None
                /\ ~op.requests[i].raised
                /\ ~ros.obs.raised
                /\ ~op.success
                /\ NextRequestResolves(op, i)

\* all of it except the reported failure
UnresolvedCredentialIsSoft ==
    ros.obs.done =>
        \A op \in CollectOperations : \A i \in 1..Len(op.requests) :
            FailedReResolution(op.requests[i]) =>
                /\ op.requests[i].ret = None
                /\ ~op.requests[i].raised
                /\ ~ros.obs.raised
                /\ NextRequestResolves(op, i)


\* the states of the session in their order
SessionStates ==
    <<"Disconnected", "SSHConnecting", "SSHAuthenticated", "TelnetConnecting",
      "TelnetAuthenticated", "CommandLoop", "Closing", "Closed">>

\* the position in SessionStates of the state a session waits in
StateIndex(s) ==
    CASE s.pc \in {"idle", "start"} -> 1
      [] s.pc \in {"expect_ssh_password", "expect_router_prompt"} -> 2
      [] s.pc \in {"expect_login", "expect_password", "expect_banner"} -> 4
      [] s.pc = "commands" -> 6
      [] s.pc = "teardown" -> 7
      [] OTHER -> 8

\* the step sees the outer prompt (SSHAuthenticated) and starts the inner
\* transport, or sees the banner (TelnetAuthenticated) and enters the loop
PassesAuthenticated(s, s2) ==
    \/ s.pc = "expect_router_prompt" /\ s2.pc = "expect_login"
    \/ s.pc = "expect_banner" /\ s2.pc = "commands"

\* one step of a running session stays, enters the next state, or passes
\* through an authenticated state into the one after it
StepInOrder(s, s2) ==
    \/ StateIndex(s2) = StateIndex(s)
    \/ StateIndex(s2) = StateIndex(s) + 1
    \/ PassesAuthenticated(s, s2)

\* a terminal failure: the session is closed without a result
TerminalFailure(s, s2) == s2.pc = "done" /\ s2.ret = RetNone

\* what the step sent
NewlySent(s, s2) == {s2.sent[i] : i \in (Len(s.sent) + 1)..Len(s2.sent)}

\* each line is sent from the wait that precedes it
SendsAfterPrompts(s, s2) ==
    /\ TelnetLine \in NewlySent(s, s2) => s.pc = "expect_router_prompt"
    /\ UserLine \in NewlySent(s, s2) => s.pc = "expect_login"
    /\ PasswordLine \in NewlySent(s, s2) => s.pc = "expect_password"
    /\ s.commands[1] \in NewlySent(s, s2) => (s.pc = "commands" /\ s.reached_loop)
    /\ (NewlySent(s, s2) \cap {ExitLine, QuitLine} # {}) =>
           /\ s.pc = "teardown"
           /\ s.idx = Len(s.commands)
           /\ s.cur.cmd = s.commands[Len(s.commands)]

CollectorSessionStep ==
    /\ sess.variant \in CollectorVariants
    /\ sess.pc \notin {"idle", "done"}
    /\ sess' # sess

\* C21 as stated: the session advances strictly in the order of its states,
\* never skipping a state forward and never going back, and sends each line
\* only after the prompt that precedes it.
C21_StrictOrder ==
    [][CollectorSessionStep =>
           (StepInOrder(sess, sess') /\ SendsAfterPrompts(sess, sess'))]_vars

\* C21: the session never goes back and advances in the order of its states,
\* except that a terminal failure (spawn error, password prompt, refusal,
\* timeout of a handshake or teardown wait) closes it from whatever state it
\* is in; the inner-transport command is sent only after the outer prompt,
\* the username only after the login prompt, the password only after the
\* password prompt, the first command only after the banner, and exit and
\* quit only after the last command of the list was attempted.
C21_OrderUpToTerminalFailure ==
    [][CollectorSessionStep =>
           /\ StateIndex(sess') >= StateIndex(sess)
           /\ StepInOrder(sess, sess') \/ TerminalFailure(sess, sess')
           /\ SendsAfterPrompts(sess, sess')]_vars

\* a session went through every state and sent quit
C21_Witness ==
    /\ sess.variant \in CollectorVariants /\ sess.pc = "done"
    /\ Len(sess.sent) > 0
    /\ sess.sent[Len(sess.sent)] = QuitLine
    /\ sess.ret.t = "map"

\* a session was closed by a terminal failure at the login prompt
TerminalFailureReached ==
    /\ sess.variant \in CollectorVariants /\ sess.pc = "done"
    /\ sess.ret = RetNone /\ ~sess.reached_loop
    /\ Len(sess.sent) = 2


\* the lines of the handshake and of the teardown
HandshakeLines == <<TelnetLine, UserLine, PasswordLine>>
TeardownLines == <<ExitLine, QuitLine>>

IsPrefix(p, q) == Len(p) <= Len(q) /\ SubSeq(q, 1, Len(p)) = p

IsCommandLine(l) == l \in CommandNames

\* the commands a session has sent, and the other lines it has sent
CommandsSent(s) == SelectSeq(s.sent, IsCommandLine)
IsOtherLine(l) == l \notin CommandNames
OtherLinesSent(s) == SelectSeq(s.sent, IsOtherLine)

\* the command list of the cadence a session belongs to
CadenceCommands(s) ==
    IF s.variant = "regular"
    THEN <<"sfp info", "onu show pon counter", "onu show ponlink",
           "onu show pon serdes", "sysmon cpu", "sysmon memory">>
    ELSE <<"onu dump ptp">>

CadenceSession == sess.variant \in {"regular", "olt_vendor"} /\ sess.pc # "idle"

\* C22: the fast-cadence session sends exactly the six regular commands in
\* their order and never the vendor command, the slow-cadence session sends
\* the vendor command only, both with the same handshake and teardown lines;
\* a slow cycle writes no SFP, PON, CPU or memory gauge and a fast cycle
\* writes no OLT vendor or OLT version gauge.
C22_ScopedCommandSets ==
    /\ CadenceSession =>
        /\ IsPrefix(CommandsSent(sess), CadenceCommands(sess))
        /\ sess.pc = "teardown" => CommandsSent(sess) = CadenceCommands(sess)
        /\ sess.ret.t = "map" => CommandsSent(sess) = CadenceCommands(sess)
        /\ IsPrefix(OtherLinesSent(sess), HandshakeLines \o TeardownLines)
        /\ sess.ret.t = "map" => OtherLinesSent(sess) = HandshakeLines \o TeardownLines
    /\ ont.cycle = "olt_vendor" =>
           ont.touched \cap {"sfp", "pon", "cpu", "memory"} = {}
    /\ ont.cycle = "regular" =>
           ont.touched \cap {"olt_vendor", "olt_version"} = {}

\* a slow cycle has processed its reply after a fast cycle of the same
\* iteration had processed its six
C22_Witness ==
    /\ ont.cycle = "olt_vendor" /\ ont.touched = {"olt_vendor", "olt_version"}
    /\ sched.last_regular_collection = sched.current_time


\* the steps of one iteration of the loop, read off the loop's position
TakesTimestamp == sched.pc = "top" /\ sched'.pc # "top"
RegularBodyStarts == sched.pc = "top" /\ sched'.pc = "collect_routeros"
RegularBodyEnds == sched.pc = "collect_regular_wait" /\ sched'.pc # "collect_regular_wait"
OltBodyStarts == sched.pc = "check_olt" /\ sched'.pc = "collect_olt_wait"
OltBodySkipped == sched.pc = "check_olt" /\ sched'.pc = "sleep"
OltBodyEnds == sched.pc = "collect_olt_wait" /\ sched'.pc # "collect_olt_wait"

\* C23: an iteration takes one timestamp and runs a cadence's body if and
\* only if the timestamp minus the cadence's recorded last run is at least
\* its interval; when the body has run, the recorded last run is the
\* iteration's timestamp (so two consecutive runs of a cadence are at least
\* one interval apart); both cadences run in the first iteration.
C23_CadenceRule ==
    [][/\ TakesTimestamp =>
              /\ sched'.current_time = sched.now
              /\ RegularBodyStarts <=>
                     (sched.now - sched.last_regular_collection
                          >= collection_interval_seconds)
       /\ (sched.pc # "top") => sched'.current_time = sched.current_time
       /\ OltBodyStarts =>
              sched.current_time - sched.last_olt_vendor_collection
                  >= olt_vendor_interval
       /\ OltBodySkipped =>
              sched.current_time - sched.last_olt_vendor_collection
                  < olt_vendor_interval
       /\ RegularBodyEnds => sched'.last_regular_collection = sched.current_time
       /\ OltBodyEnds => sched'.last_olt_vendor_collection = sched.current_time
       /\ (sched.current_time = StartTime /\ sched'.pc \in {"sleep", "error_sleep"}
               /\ sched.pc \notin {"sleep", "error_sleep"}) =>
              (OltBodyEnds /\ sched.last_regular_collection = StartTime)
      ]_vars

\* all of it except the recording of the slow cadence's last run
CadenceRuleOfRegular ==
    [][/\ TakesTimestamp =>
              /\ sched'.current_time = sched.now
              /\ RegularBodyStarts <=>
                     (sched.now - sched.last_regular_collection
                          >= collection_interval_seconds)
       /\ (sched.pc # "top") => sched'.current_time = sched.current_time
       /\ OltBodyStarts =>
              sched.current_time - sched.last_olt_vendor_collection
                  >= olt_vendor_interval
       /\ OltBodySkipped =>
              sched.current_time - sched.last_olt_vendor_collection
                  < olt_vendor_interval
       /\ RegularBodyEnds => sched'.last_regular_collection = sched.current_time
       /\ (sched.current_time = StartTime /\ sched'.pc \in {"sleep", "error_sleep"}
               /\ sched.pc \notin {"sleep", "error_sleep"}) =>
              (OltBodyEnds /\ sched.last_regular_collection = StartTime)
      ]_vars


\* a reading of the observed call was processed and judged not stale
FreshReading ==
    \E mt \in MetricTypes : PowerProcessed(mt) /\ gauges.sfp_data_stale[mt] = 0

\* C24: whenever a power reading is processed and judged not stale, the same
\* step sets the interface's last-verified timestamp to the current time;
\* when no reading of the step is judged fresh the timestamp is unchanged.
C24_FreshReadingIsLastVerified ==
    power.done =>
        IF FreshReading
        THEN gauges.sfp_last_verified = power.current_time
        ELSE gauges.sfp_last_verified = power.verified_before

\* the same for the processing in monitor.py alone
MonitorFreshReadingIsLastVerified ==
    power.by = "monitor" => C24_FreshReadingIsLastVerified


\* the observed call was a SerDes parse that found its line
SerdesParsed ==
    shell.obs.op = "serdes" /\ "ont_pon_serdes_state" \in shell.obs.written

\* the line the observed SerDes parse matched
SerdesLineOf(text) == text.lines[SerdesFound(text)]

\* the children of the text-state gauge that are 1
TextStatesSet == {i \in 1..Len(SerdesTextGauges) : shell.m[SerdesTextGauges[i]] = Val(1)}

\* C25: after every successful SerDes parse exactly one of the six state
\* gauges is 1 and the other five are 0, whatever state name the device
\* reported (names outside the vocabulary and names in another letter case
\* included), and the numeric state gauge equals the parsed hex code.
C25_SerdesOneOfN ==
    SerdesParsed =>
        /\ Cardinality(TextStatesSet) = 1
        /\ \A i \in 1..Len(SerdesTextGauges) :
               shell.m[SerdesTextGauges[i]] \in {Val(0), Val(1)}
        /\ shell.m["ont_pon_serdes_state"]
               = Val(HexVal(SubSeq(SerdesLineOf(shell.obs.text).unit, 3,
                                   Len(SerdesLineOf(shell.obs.text).unit))))

\* what holds for every name: at most one gauge is 1, all six are written,
\* and the numeric gauge is the code
SerdesAtMostOne ==
    SerdesParsed =>
        /\ Cardinality(TextStatesSet) <= 1
        /\ \A i \in 1..Len(SerdesTextGauges) :
               shell.m[SerdesTextGauges[i]] \in {Val(0), Val(1)}
        /\ shell.m["ont_pon_serdes_state"]
               = Val(HexVal(SubSeq(SerdesLineOf(shell.obs.text).unit, 3,
                                   Len(SerdesLineOf(shell.obs.text).unit))))


\* the link-status gauge the observed parser feeds
PonGaugeOf(op) == IF op = "monitor" THEN "pon_link_status" ELSE "ont_pon_link_status"

\* the observed call parsed a reply to `onu show ponlink` long enough to be
\* looked at
PonParsed == shell.obs.op \in {"pon", "monitor"} /\ shell.obs.text.len >= 10

HasPonLabel(text) == \E i \in 1..Len(text.lines) : text.lines[i].label = "ponlink-status"
HasPonToken(text) == Found(text, PonFlexible) # 0

\* the fallback label patterns in the order they are tried
FallbackPatterns == <<PonFallback>> \o alt_patterns

FirstFallback(text) ==
    IF \E i \in 1..Len(FallbackPatterns) : Found(text, FallbackPatterns[i]) # 0
    THEN CHOOSE i \in 1..Len(FallbackPatterns) :
            /\ Found(text, FallbackPatterns[i]) # 0
            /\ \A j \in 1..(i - 1) : Found(text, FallbackPatterns[j]) = 0
    ELSE 0

PonWrote(value) ==
    /\ PonGaugeOf(shell.obs.op) \in shell.obs.written
    /\ shell.m[PonGaugeOf(shell.obs.op)] = Val(value)

PonWroteNothing == PonGaugeOf(shell.obs.op) \notin shell.obs.written

\* C26: PON link status is published as 1 only when the ponlink-status token
\* contains connect-OK in any letter case and as 0 for every other token; the
\* fallback label patterns are consulted only when the ponlink-status label
\* is absent, in a fixed order with the first match deciding; when no pattern
\* matches, the link-status gauge is not written.
C26_PonLinkStatusPatterns ==
    PonParsed =>
        /\ HasPonToken(shell.obs.text) =>
               PonWrote(ConnectOkIn(Group(shell.obs.text, PonFlexible)))
        /\ (HasPonLabel(shell.obs.text) /\ ~HasPonToken(shell.obs.text)) =>
               PonWroteNothing
        /\ (~HasPonLabel(shell.obs.text) /\ FirstFallback(shell.obs.text) # 0) =>
               PonWrote(UpIs1(Group(shell.obs.text,
                                    FallbackPatterns[FirstFallback(shell.obs.text)])))
        /\ (~HasPonLabel(shell.obs.text) /\ FirstFallback(shell.obs.text) = 0) =>
               PonWroteNothing

\* what the collector's parser does: the token decides when there is one,
\* the first fallback pattern that matches decides when there is none (a
\* label without a token included), and a reply no pattern matches writes nothing
CollectorPonLinkStatusPatterns ==
    (PonParsed /\ shell.obs.op = "pon") =>
        /\ HasPonToken(shell.obs.text) =>
               PonWrote(ConnectOkIn(Group(shell.obs.text, PonFlexible)))
        /\ (~HasPonToken(shell.obs.text) /\ FirstFallback(shell.obs.text) # 0) =>
               PonWrote(UpIs1(Group(shell.obs.text,
                                    FallbackPatterns[FirstFallback(shell.obs.text)])))
        /\ (~HasPonToken(shell.obs.text) /\ FirstFallback(shell.obs.text) = 0) =>
               PonWroteNothing

\* the claim for the collector's parser alone
C26OfCollector == shell.obs.op = "pon" => C26_PonLinkStatusPatterns

\* the claim for the collector's parser on replies whose ponlink-status
\* label, when present, carries a token
C26OfCollectorWithToken ==
    (shell.obs.op = "pon"
        /\ (HasPonLabel(shell.obs.text) => HasPonToken(shell.obs.text)))
    => C26_PonLinkStatusPatterns


\* the interface whose monitor data collect_sfp_metrics processes
SfpName == "sfp-sfpplus1"

\* the observed cycle asked the monitor endpoint for the SFP readings, and
\* for the error statistics
MonitorAsked == ros.obs.done /\ Len(ros.obs.sfp.requests) >= 2
ErrorStatsAsked == ros.obs.done /\ Len(ros.obs.sfp.requests) >= 3
ErrorStatsAnswer == ParsedMonitor(ros.obs.sfp.requests[3].ret)

\* the element of a list named like the interface, else its first element
NamedOrFirst(items, name) ==
    IF \E i \in 1..Len(items) : items[i].name = name
    THEN items[CHOOSE i \in 1..Len(items) :
                  items[i].name = name /\ \A j \in 1..(i - 1) : items[j].name # name]
    ELSE items[1]

IsNonEmptyList(j) == j.type = "list" /\ j.items # <<>>
IsBareValue(j) == j.type = "scalar"

SfpWrote(metric, value) ==
    /\ <<metric, SfpName>> \in ros.obs.sfp.written
    /\ ros.metrics[metric][SfpName] = Val(value)

ReadingPublished(v, unit, metric) ==
    (v.type # "absent" /\ ParseUnit(v, unit).ok) => SfpWrote(metric, ParseUnit(v, unit).val)

\* the readings of a monitor object reached their gauges
ReadingsPublished(obj) ==
    /\ ReadingPublished(obj.temperature, <<"C">>, "sfp_temperature")
    /\ ReadingPublished(obj.bias, <<"m", "A">>, "sfp_tx_bias_current")
    /\ ReadingPublished(obj.voltage, <<"V">>, "sfp_voltage")

\* the error statistics of a monitor object reached their counters
ErrorStatsPublished(obj) ==
    \A i \in 1..Len(error_mapping) :
        (obj.errs[error_mapping[i][1]].type # "absent"
            /\ FloatOf(obj.errs[error_mapping[i][1]]).ok)
        => SfpWrote(error_mapping[i][2], FloatOf(obj.errs[error_mapping[i][1]]).val)

NoErrorStatWritten ==
    \A i \in 1..Len(error_mapping) :
        <<error_mapping[i][2], SfpName>> \notin ros.obs.sfp.written

SfpCycleNotFailed == ~ros.obs.sfp.excepted /\ ros.obs.sfp.success

\* C27: the monitor response is normalized in both places that consume it:
\* a list is replaced by its element named like the interface, else by its
\* first element, for the SFP readings and for the SFP error statistics; an
\* empty or missing response skips the interface's writes without failing
\* the cycle; a bare value causes no metric write and no failure of the cycle.
C27_MonitorResponseNormalized ==
    /\ MonitorAsked =>
        /\ IsNonEmptyList(ros.obs.monitor) =>
               ReadingsPublished(NamedOrFirst(ros.obs.monitor.items, SfpName))
        /\ (JFalsy(ros.obs.monitor) \/ IsBareValue(ros.obs.monitor)) =>
               ros.obs.sfp.written = {} /\ SfpCycleNotFailed
    /\ ErrorStatsAsked =>
        /\ IsNonEmptyList(ErrorStatsAnswer) =>
               ErrorStatsPublished(NamedOrFirst(ErrorStatsAnswer.items, SfpName))
        /\ (JFalsy(ErrorStatsAnswer) \/ IsBareValue(ErrorStatsAnswer)) =>
               NoErrorStatWritten /\ SfpCycleNotFailed

\* what collect_sfp_metrics and _collect_sfp_error_stats do: the readings
\* are normalized and an empty or missing response is skipped; the error
\* statistics take an object only and drop a list or a bare value unread
SfpReadingsNormalized ==
    /\ MonitorAsked =>
        /\ IsNonEmptyList(ros.obs.monitor) =>
               ReadingsPublished(NamedOrFirst(ros.obs.monitor.items, SfpName))
        /\ JFalsy(ros.obs.monitor) =>
               ros.obs.sfp.written = {} /\ SfpCycleNotFailed
        /\ IsBareValue(ros.obs.monitor) =>
               ros.obs.sfp.written = {} /\ ros.obs.sfp.excepted
    /\ ErrorStatsAsked =>
        /\ ErrorStatsAnswer.type # "dict" => NoErrorStatWritten /\ SfpCycleNotFailed
        /\ ErrorStatsAnswer.type = "dict" =>
               ErrorStatsPublished(ErrorStatsAnswer.items[1])


\* the last cycle followed a cycle that met the same replies
RepeatedCycle == ros.obs.done /\ ros.calls >= 2 /\ ros.repeat

CounterMetrics ==
    {stats_mapping[i][2] : i \in 1..Len(stats_mapping)}
        \cup {error_mapping[i][2] : i \in 1..Len(error_mapping)}

\* C29: across any sequence of cycles every counter-type interface metric
\* (rx/tx packets, errors, drops, SFP error counters) is monotonically
\* non-decreasing from one cycle to the next, whatever totals the router
\* reports, a total lower than the one of the previous cycle included.
C29_CountersNeverDecrease ==
    \A k \in CounterMetrics : \A n \in InterfaceNames :
        ros.prev[k][n].set =>
            /\ ros.metrics[k][n].set
            /\ ros.metrics[k][n].val >= ros.prev[k][n].val

\* what holds: a counter a cycle writes holds the total the router reported
\* in that cycle, and a counter it does not write keeps its value
CountersFollowReportedTotals ==
    \A k \in CounterMetrics : \A n \in InterfaceNames :
        ros.obs.done =>
            \/ <<k, n>> \in ros.obs.interface.written \cup ros.obs.sfp.written
            \/ ros.metrics[k][n] = ros.prev[k][n]



\* the same for the parsers of the device's replies: a parser run twice in a
\* row on the same reply leaves every gauge as the first run left it
ParsedTwiceSame == shell.obs.repeat => shell.m = shell.obs.before

\* the FEC counters were parsed twice from the same reply
FecParsedTwice ==
    /\ shell.obs.repeat /\ shell.obs.op = "fec"
    /\ shell.obs.written = FecGauges
    /\ shell.m["ont_pon_fec_corrected_bytes"] = Val(1200)


\* the differences a comparison has to warn about, by the thresholds of the
\* claim: more than 2.0 for the optical powers, more than 1.0 otherwise
ExceedsThreshold(k) ==
    /\ k \in DirectKeys(power.cmp.direct) \cap ApiKeys(power.cmp.api)
    /\ Abs(DirectValue(power.cmp.direct, k).val - ApiValue(power.cmp.api, k).val)
           > (IF k \in {"rx_power", "tx_power"} THEN 20 ELSE 10)

\* the observed step was a comparison that compared its readings
Compared == power.by = "compare" /\ power.cmp.done /\ ~power.cmp.raised

ComparisonWarnsAtThreshold ==
    Compared => power.cmp.warned = {k \in CompareKeys : ExceedsThreshold(k)}

\* two gauge values are the same: both unset, or both set to the same number
SameValue(a, b) == ToString(a) = ToString(b)

PublishedUnchanged ==
    /\ \A mt \in MetricTypes :
           /\ SameValue(gauges.sfp_data_stale[mt], power.cmp.stale_before[mt])
           /\ SameValue(gauges.sfp_power[mt], power.cmp.power_before[mt])
    /\ gauges.sfp_last_verified = power.verified_before

\* C30: comparing an API reading with the directly scraped reading is
\* diagnostic only: a warning is emitted exactly when the absolute difference
\* exceeds the threshold (2.0 for rx/tx optical power, 1.0 for every other
\* quantity), and the comparison leaves every published metric unchanged,
\* the power gauges and the stale flags included, whatever the link state.
C30_ComparisonIsDiagnosticOnly ==
    /\ ComparisonWarnsAtThreshold
    /\ (power.by = "compare" /\ power.cmp.done) => PublishedUnchanged

\* what the comparison does to the registry: nothing while the link is up or
\* when it raised; with the link not up, the stale flag of each optical power
\* it warned about is 1 and everything else is as it was
ComparisonMarksStaleWhenDown ==
    (power.by = "compare" /\ power.cmp.done) =>
        /\ (power.cmp.link_is_up \/ power.cmp.raised) => PublishedUnchanged
        /\ \A mt \in MetricTypes :
               /\ SameValue(gauges.sfp_power[mt], power.cmp.power_before[mt])
               /\ SameValue(gauges.sfp_data_stale[mt],
                            IF ~power.cmp.link_is_up /\ mt \in power.cmp.warned
                            THEN 1 ELSE power.cmp.stale_before[mt])


\* the scraped id is a key of the legacy table and, with its prefix, no key
\* of OLT_VENDOR_MAP
OnlyInLegacyTable(group) ==
    /\ \E p \in legacy_vendor_map : p[1] = Lower(group)
    /\ ~\E p \in OLT_VENDOR_MAP : p[1] = Prefix0x \o Lower(group)

\* C31: a vendor id present only in the legacy fallback table resolves,
\* through parse_olt_vendor_id and then get_vendor_name, to the name the
\* legacy table holds for it and not to "Unknown": every entry of the legacy
\* table is reachable by some scraped id.
C31_LegacyEntriesReachable ==
    (vend.path = "monitor" /\ OnlyInLegacyTable(vend.scraped)) =>
        vend.name = Get(legacy_vendor_map, Lower(vend.scraped), "Unknown")

\* what the path does: the key it looks up always carries the prefix, which
\* no key of the legacy table has, so the legacy table never answers
LegacyTableNeverAnswers ==
    vend.path = "monitor" =>
        /\ StartsWith0x(vend.key)
        /\ vend.name = Get(OLT_VENDOR_MAP, vend.key, "Unknown")


\* ======================================================================
\*  The command loops over the child's input stream
\*  (zaram_ont_collector.py, _run_commands and _run_regular_commands)
\* ======================================================================

\* the prompt both loops wait for (lines 292, 906)
ShellPrompt == "admin@ZXOS11NPI [/] #"

\* the line the device prints for a command
DeviceReply(cmd) ==
    CASE cmd = "sfp info" -> "vendor name: ZARAM"
      [] cmd = "onu dump ptp" -> "oltVendorId: 5a49"
      [] cmd = "onu show pon counter" -> "fec corrected bytes: 12"
      [] cmd = "onu show ponlink" -> "ponlink-status: O5"
      [] cmd = "onu show pon serdes" -> "serdes state: SYNC"
      [] cmd = "sysmon cpu" -> "cpu usage: 12.5%"
      [] OTHER -> "memory usage: 40.1%"

\* what the device sends back for one sendline(cmd): echo, reply, prompt
DeviceOutput(cmd) == <<cmd, DeviceReply(cmd), ShellPrompt>>

HasPrompt(buf) == \E i \in 1..Len(buf) : buf[i] = ShellPrompt

FirstPrompt(buf) ==
    CHOOSE i \in 1..Len(buf) :
        buf[i] = ShellPrompt /\ \A j \in 1..(i - 1) : buf[j] # ShellPrompt

\* child.expect([prompt, prompt, TIMEOUT], timeout=10) on the text read so
\* far: the first prompt in the buffer is matched and child.before is the
\* text in front of it; without a prompt the wait times out
ExpectOutcome(buf) ==
    IF HasPrompt(buf)
    THEN Reply(SubSeq(buf, 1, FirstPrompt(buf) - 1))
    ELSE TimedOut(buf)

\* the buffer the child keeps after the expect call: a match consumes the
\* text up to the prompt, a timeout consumes nothing
BufferAfter(buf) ==
    IF HasPrompt(buf) THEN SubSeq(buf, FirstPrompt(buf) + 1, Len(buf)) ELSE buf

\* sendline(cmd), the sleep and the prompt wait of one pass through the
\* loop body, `arrived` lines of the device's pending text being read by
\* the time the wait ends
StreamStep(s, cmd, pending, arrived) ==
    [CommandStep(s, cmd, ExpectOutcome(s.buffer \o SubSeq(pending, 1, arrived)))
        EXCEPT !.buffer = BufferAfter(s.buffer \o SubSeq(pending, 1, arrived)),
               !.late = IF HasPrompt(s.buffer \o SubSeq(pending, 1, arrived))
                        THEN @ ELSE @ + 1,
               !.wire = SubSeq(pending, arrived + 1, Len(pending))]

\* how much of the pending text is read by the time the wait ends: the
\* device answers command by command, so whole answers arrive
Arrivals(n) == {k \in 0..n : k % 3 = 0}

\* the body of `for cmd in commands` (lines 275-339, 895-922, 937-973) with
\* the replies read from the child's stream
RunCommandOnStream ==
    /\ sess.pc = "commands"
    /\ \/ \E arrived \in Arrivals(Len(sess.wire) + 3) :
            /\ sess.late < MaxLate \/ HasPrompt(sess.buffer) \/ arrived > 0
            /\ sess' = StreamStep(sess, sess.commands[sess.idx],
                                  sess.wire \o DeviceOutput(sess.commands[sess.idx]),
                                  arrived)
       \/ \* sendline or expect raises
          sess' = CommandStep(sess, sess.commands[sess.idx], Raised)
    /\ open_children' = ClosedChildren(sess, sess')
    /\ UNCHANGED <<started, sched>>
    /\ HttpIdle /\ CollectorsIdle /\ OntIdle

StreamSessionStep ==
    \/ Spawn
    \/ ExpectSshPassword
    \/ ExpectRouterPrompt
    \/ ExpectLogin
    \/ ExpectPassword
    \/ ExpectBanner
    \/ RunCommandOnStream
    \/ Teardown

NextStream == StartCollectorSession \/ StreamSessionStep

SpecStream == InitQuiet /\ [][NextStream]_vars

\* the lines of a command's entry that the device printed for that command
OwnLines(cmd) == {cmd, DeviceReply(cmd), ""}

HoldsOwnReply(cmd) ==
    sess.outputs[cmd] # Missing =>
        \A i \in 1..Len(sess.outputs[cmd]) : sess.outputs[cmd][i] \in OwnLines(cmd)

\* C32: in the command loop the reply stored under a command consists only
\* of output the device produced after that command was sent; no entry holds
\* the reply or late prompt of an earlier command, even when an earlier
\* command's prompt wait timed out and its output arrives after the next
\* command has been sent.
C32_EntryHoldsOwnReply == \A cmd \in CommandNames : HoldsOwnReply(cmd)

\* what holds instead: an entry holds lines the device printed for its own
\* command or for a command sent before it in the same session
SentUpTo(k) == {sess.commands[j] : j \in 1..k}

LinesUpTo(k) == UNION {OwnLines(c) : c \in SentUpTo(k)}

EntryHoldsOwnOrEarlierReply ==
    \A k \in 1..Len(sess.commands) :
        sess.outputs[sess.commands[k]] # Missing =>
            \A i \in 1..Len(sess.outputs[sess.commands[k]]) :
                sess.outputs[sess.commands[k]][i] \in LinesUpTo(k)


\* the OLT vendor cycle has ended: collect_olt_vendor_info returned or raised
OltCycleEnded == ont.cycle = "olt_vendor"

\* C33: collect_olt_vendor_info always completes with a boolean result and a
\* written success flag: whether the session returned a mapping or failed
\* and returned nothing, it returns True or False, sets collection_success
\* for the shell collector to that value and lets no exception escape to the
\* scheduler loop.
C33_OltVendorInfoAlwaysCompletes ==
    OltCycleEnded =>
        /\ ~ont.raised
        /\ ont.collection_success = Val(IF ont.failed THEN 0 ELSE 1)

\* what the function does: with a mapping it returns True and writes 1;
\* without one the exception leaves it and the scheduler's except clause
\* is entered
OltVendorInfoCompletesWithMapping ==
    (OltCycleEnded /\ ~ont.failed) =>
        (~ont.raised /\ ont.collection_success = Val(1))

OltVendorInfoRaisesWithoutMapping ==
    (OltCycleEnded /\ ont.failed) => ont.raised


\* the slow cadence's body let an exception escape into the except clause
OltBodyRaises == OltBodyEnds /\ sched'.pc = "error_sleep"

\* the backoff sleep of the except clause ends
BackoffEnds == sched.pc = "error_sleep" /\ sched'.pc = "top"

\* C34: a cadence's last-run time is updated only after its cycle body
\* returned without an exception: if a cycle body raises, its last-run time
\* keeps its previous value, so after the backoff sleep that cadence is due
\* again at the very next timer check; a cadence whose body completed
\* earlier in the same iteration keeps its updated last-run time.
C34_LastRunOnlyAfterCompletedBody ==
    [][/\ sched'.last_regular_collection # sched.last_regular_collection =>
              (RegularBodyEnds /\ sched'.last_regular_collection = sched.current_time)
       /\ sched'.last_olt_vendor_collection # sched.last_olt_vendor_collection =>
              (OltBodyEnds /\ sched'.pc = "sleep"
                  /\ sched'.last_olt_vendor_collection = sched.current_time)
       /\ OltBodyRaises =>
              /\ sched'.last_olt_vendor_collection = sched.last_olt_vendor_collection
              /\ sched'.last_regular_collection = sched.last_regular_collection
       /\ BackoffEnds =>
              /\ sched'.now - sched'.last_olt_vendor_collection >= olt_vendor_interval
              /\ sched'.last_regular_collection = sched.last_regular_collection
      ]_vars

\* after the backoff sleep the slow cadence's body runs again at the first
\* timer check, the fast cadence keeping the last-run time of the iteration
\* that was interrupted
C34_Witness ==
    /\ sched.pc = "collect_olt_wait"
    /\ sched.current_time = StartTime + ErrorSleep
    /\ sched.last_olt_vendor_collection = 0
    /\ sched.last_regular_collection = sched.current_time


\* C35: after collect_all_metrics returns, the router collector's
\* collection_success flag equals the value it returned: it is 1 only if both
\* the interface collection and the SFP collection of the cycle succeeded; a
\* failed interface collection is never masked by a later successful SFP
\* collection in the same cycle.
C35_FlagEqualsReturnedValue ==
    (ros.obs.done /\ ~ros.obs.raised) =>
        ros.collection_success = Val(IF ros.obs.returned THEN 1 ELSE 0)

\* what the flag holds: the success of the collection that ran last
FlagIsOfSfpCollection ==
    (ros.obs.done /\ ~ros.obs.raised) =>
        /\ ros.collection_success = Val(IF ros.obs.sfp.success THEN 1 ELSE 0)
        /\ ros.obs.returned = (ros.obs.interface.success /\ ros.obs.sfp.success)


\* C36: collect_regular_metrics returns True and sets collection_success for
\* the shell collector to 1 if and only if the session returned a mapping,
\* independently of how many commands timed out, the case where every
\* command's reply is empty included; it sets the flag to 0 and leaves the
\* last-collection timestamp unchanged exactly when the session returned
\* nothing.
C36_RegularFlagFollowsSession ==
    [][RegularBodyEnds =>
          /\ ont'.cycle = "regular" /\ ~ont'.raised
          /\ IF sess.ret.t = "map"
             THEN /\ ont'.returned
                  /\ ont'.collection_success = Val(1)
                  /\ ont'.last_collection_timestamp = Val(sched.now)
             ELSE /\ ~ont'.returned
                  /\ ont'.collection_success = Val(0)
                  /\ ont'.last_collection_timestamp = ont.last_collection_timestamp
      ]_vars

\* a regular cycle whose six commands all gave the empty string succeeded
C36_Witness ==
    /\ ont.cycle = "regular" /\ ont.all_empty
    /\ ont.returned /\ ont.collection_success = Val(1)
    /\ ont.last_collection_timestamp = Val(sched.current_time)

\* a regular cycle failed after an earlier cycle had succeeded: the flag is 0
\* and the timestamp is the earlier cycle's
RegularFailureKeepsTimestamp ==
    /\ ont.cycle = "regular" /\ ont.failed /\ ont.collection_success = Val(0)
    /\ ont.last_collection_timestamp = Val(StartTime)
    /\ sched.current_time = StartTime + ErrorSleep


InRetryingLoop == sess.pc = "commands" /\ sess.variant = "all"

\* the attempt that has just ended calls for another one
NeedsRetry(c) ==
    \/ c.last.kind = "timeout"
    \/ c.last.kind = "reply" /\ TooShort(CleanLines(c.last.raw, c.cmd))

\* the sleeps of the exponential backoff, in seconds
BackoffWaits == <<1, 2>>

\* C37: in the retrying command loop every command is sent at most 3 times;
\* it is re-sent only after a prompt timeout or an empty or too short reply,
\* after a wait of 1 s before the second attempt and 2 s before the third;
\* after the loop the command has exactly one entry in the mapping, the
\* empty string if the last attempt timed out and the last attempt's cleaned
\* reply otherwise; retries of one command never affect the number of
\* attempts available to the next command.
C37_RetryingLoop ==
    [][InRetryingLoop =>
          /\ sess'.cur.cmd = sess.commands[sess.idx]
          /\ sess'.cur.sends = sess.attempt + 1
          /\ sess'.cur.sends <= 3
          /\ sess.attempt > 0 =>
                 (sess.cur.cmd = sess'.cur.cmd /\ ~sess.cur.complete
                     /\ NeedsRetry(sess.cur))
          /\ ~sess'.cur.complete <=>
                 (sess'.cur.sends < 3 /\ NeedsRetry(sess'.cur))
          /\ sess'.cur.waits =
                 SubSeq(BackoffWaits, 1,
                        IF sess'.cur.complete THEN sess'.cur.sends - 1
                        ELSE sess'.cur.sends)
          /\ \A d \in CommandNames \ {sess'.cur.cmd} : sess'.outputs[d] = sess.outputs[d]
          /\ IF sess'.cur.complete
             THEN /\ sess'.outputs[sess'.cur.cmd] =
                        (IF sess'.cur.last.kind = "timeout" THEN <<>>
                         ELSE CleanLines(sess'.cur.last.raw, sess'.cur.cmd))
                  /\ sess'.attempt = 0
             ELSE /\ sess'.outputs[sess'.cur.cmd] = Missing
                  /\ sess'.attempt = sess.attempt + 1
                  /\ sess'.idx = sess.idx
      ]_vars

\* the second command was sent three times, after waits of 1 s and 2 s, its
\* last reply being too short, while the first command's entry is empty
C37_Witness ==
    /\ sess.variant = "all" /\ sess.pc = "commands" /\ sess.idx = 3
    /\ sess.cur.cmd = RunCommandsList[2] /\ sess.cur.complete
    /\ sess.cur.sends = 3 /\ sess.cur.waits = <<1, 2>>
    /\ sess.cur.last.kind = "reply"
    /\ sess.outputs[RunCommandsList[2]] = <<ShortLine>>
    /\ sess.outputs[RunCommandsList[1]] = <<>>


\* the cycle wrote the link-status gauge of the SFP interface with this value
LinkStatusWritten(value) ==
    /\ <<"interface_link_status", SfpName>> \in ros.obs.interface.written
    /\ ros.metrics["interface_link_status"][SfpName] = Val(value)

\* the cycle wrote the stale flag of a power reading with this value
StaleWritten(mt, value) == SfpWrote(StaleMetric(mt), value)

\* C38: within one fast cycle the link state used for the staleness decision
\* agrees with the link state published for the same interface: whenever a
\* stale flag of the SFP interface is set to 1 in a cycle, the link-status
\* gauge written for that interface in the same cycle is 0, and whenever the
\* link-status gauge is written as 1, both stale flags written in that cycle
\* are 0.
C38_StaleAgreesWithLinkStatus ==
    ros.obs.done =>
        /\ (\E mt \in MetricTypes : StaleWritten(mt, 1)) => ~LinkStatusWritten(1)
        /\ LinkStatusWritten(1) => \A mt \in MetricTypes : ~StaleWritten(mt, 1)

\* what the staleness decision agrees with: the link state read from the
\* status field of the monitor reply, which the link-status gauge never uses
StaleOnlyWhenMonitorSaysDown ==
    (ros.obs.done /\ \E mt \in MetricTypes : StaleWritten(mt, 1)) =>
        (power.done /\ ~power.link_is_up)


\* the router reports the SFP interface as running while the module's
\* monitor reports no link and a cached RX power above the threshold
RunningButNoLink ==
    /\ ros.obs.done
    /\ ros.obs.input.bodies[1] = "ifaces_scenario"
    /\ ros.obs.input.bodies[4] = "mon_down"
    /\ LinkStatusWritten(1)
    /\ StaleWritten("rx_power", 1)

=============================================================================
